---- MODULE Spec2Model ----
(***************************************************************************)
(* Model of the compressed-streaming pair of the NI-DAQmx C examples:      *)
(*   ContAcqVoltage-ToFile-Compacted.c  (header writer + streaming writer) *)
(*   GraphAcquiredCompactedData.c       (header parser + sample decoder)   *)
(*                                                                         *)
(* and of the main functions and callbacks of three Synchronization and    *)
(* two Events examples.                                                    *)
(*                                                                         *)
(* Four specifications share the module, one per program part:             *)
(*   SpecDecode    ReadScaleAndPlotDataFileData and the two decode loops   *)
(*   SpecParse     ParseDataFileHeader                                     *)
(*   SpecWriter    main / CreateDataFileHeader / the event callbacks       *)
(*   SpecExamples  main and the callbacks of the five examples             *)
(* and two more cover one part under other conditions:                     *)
(*   SpecDecodeFair  SpecDecode with the decoder always taking its step    *)
(*   SpecTaskEntry   the task and channel entries for every sampsPerChan   *)
(*                                                                         *)
(* The C type long is 32 bits wide, as on the Windows target the sources   *)
(* are written for (paths "C:\\stream.cfg", fscanf("%ld") into uInt32).     *)
(* A 32-bit word is represented by the signed integer with the same bit    *)
(* pattern, so that every value stays inside TLC's integer range.          *)
(***************************************************************************)
EXTENDS Integers, Sequences, FiniteSets, TLC

VARIABLES
    \* ---- decoder (GraphAcquiredCompactedData.c) ----
    info,        \* DataFileInfo handed to the decode functions
    rawData,     \* the data region read by ReadDataFileData (bytes)
    dpc,         \* position in ReadScaleAndPlotDataFileData
    loc,         \* position inside the decode loop: "while" or "for"
    pos,         \* number of bytes consumed (rawData pointer - base)
    numBytes,    \* remaining byte count
    numSamples,  \* samples counted so far
    iSamp,       \* sample index within the current block
    data,        \* data[iChan]: scaled samples stored so far
    ints,        \* ints[iChan]: the integer val handed to the scaling loop
    ch,          \* packed path: current byte
    bitPos,      \* packed path: bit cursor in ch
    byteCount,   \* packed path: bytes fetched in the current block
    blockStart,  \* offsets at which the decoder began each block
    size,        \* entries allocated for each data[iChan]
    result       \* return value of ReadScaleAndPlotDataFileData

VARIABLES
    \* ---- header parser (GraphAcquiredCompactedData.c) ----
    lines,       \* the text of the file: a sequence of lines [k, v]
    ppc,         \* position in ParseDataFileHeader
    fpos,        \* index of the line the stream stands at
    stuck,       \* the stream stands inside a line that matched only in part
    pinfo,       \* the static DataFileInfo info
    pi,          \* the loop counter i
    channelNum,  \* the local channelNum
    coeffBuff,   \* the local coeffBuff
    buffs,       \* the locals justificationBuff, signedBuff, compBuff, byteOrderBuff
    junk,        \* what uninitialised words hold
    junkBuff,    \* what uninitialised character buffers hold
    presult      \* what ParseDataFileHeader returned: "none", "NULL" or "info"

VARIABLES
    \* ---- writer (ContAcqVoltage-ToFile-Compacted.c) ----
    wpc,            \* position in main
    cfg,            \* what the DAQmx task answers to the queries of the writer
    taskHandle,     \* main's taskHandle: 0 or the handle of the task
    task,           \* the DAQmx task: "none", "created", "running", "stopped", "done", "cleared"
    numChannels,    \* the static numChannels
    wdata,          \* the static data: "NULL", "alloc", "wild" or "freed"
    gFileHandle,    \* the static gFileHandle: "NULL" or the mode of the stream, "closed" once fclosed
    gHeader,        \* the static gHeader: a sequence of lines [k, v]
    gReadBlockSize, \* the static gReadBlockSize
    onCRLF,         \* a text stream writes a line end as two bytes
    fileHeader,     \* the text at the start of C:\stream.cfg
    fileData,       \* the blocks behind it
    acquired,       \* the blocks the callbacks have read, in the order of the callbacks
    hret,           \* what CreateDataFileHeader returned: "none", "TRUE" or "FALSE"
    staleCalls,     \* DAQmxStopTask and DAQmxClearTask calls on a task already cleared
    cbpc,           \* where the thread that runs EveryNCallback stands
    filePath,       \* the filePath CreateDataFileHeader was called with, "NULL" for none
    fopens,         \* the fopen calls of CreateDataFileHeader, [mode, ok], in call order
    registered,     \* the callbacks registered with the task
    started,        \* DAQmxStartTask has started the task
    sampsArg        \* the sampsPerChan CreateDataFileHeader is called with

VARIABLES
    \* ---- the Synchronization and Events examples ----
    program,        \* the example that runs
    mpc,            \* position in its main
    mi,             \* index of the task the position is about
    error,          \* main's error
    handles,        \* the static task handles: 0 or the handle of the task
    tasks,          \* the DAQmx tasks: "none", "created", "running", "stopped", "cleared"
    startOrder,     \* the tasks DAQmxStartTask has started, in call order
    startFailed,    \* the tasks DAQmxStartTask has failed on
    events          \* the callbacks DAQmx has called

evars == <<program, mpc, mi, error, handles, tasks, startOrder, startFailed, events>>

wvars == <<wpc, cfg, taskHandle, task, numChannels, wdata, gFileHandle, gHeader,
           gReadBlockSize, onCRLF, fileHeader, fileData, acquired, hret, staleCalls, cbpc,
           filePath, fopens, registered, started, sampsArg>>

pvars == <<lines, ppc, fpos, stuck, pinfo, pi, channelNum, coeffBuff, buffs, junk, junkBuff, presult>>

dvars == <<info, rawData, dpc, loc, pos, numBytes, numSamples, iSamp, data,
           ints, ch, bitPos, byteCount, blockStart, size, result>>

vars == <<dvars, pvars, wvars, evars>>

(***************************************************************************)
(* Bounds of the model.                                                    *)
(***************************************************************************)
MaxBytes == 8           \* longest data region
MaxChannels == 2        \* largest NumberOfChannels
MaxReadBlockSize == 2   \* largest ReadBlockSize
MaxPad == 1             \* whole padding bytes a block may declare
MaxSections == 2        \* most channel sections in a header text
MaxTaskChannels == 2    \* most channels of the writer's task
MaxBlocks == 3          \* most blocks the callbacks read in one run
MaxEvents == 2          \* most callbacks in one run of an example

\* the examples at rest
ExamplesIdle ==
    /\ program = <<>> /\ mpc = "idle" /\ mi = 0 /\ error = 0 /\ handles = <<>>
    /\ tasks = <<>> /\ startOrder = <<>> /\ startFailed = {} /\ events = 0

\* the writer part at rest
WriterIdle ==
    /\ wpc = "idle" /\ cfg = <<>> /\ taskHandle = 0 /\ task = "none" /\ numChannels = 0
    /\ wdata = "NULL" /\ gFileHandle = "NULL" /\ gHeader = <<>> /\ gReadBlockSize = 0
    /\ onCRLF = FALSE /\ fileHeader = <<>> /\ fileData = <<>> /\ acquired = <<>>
    /\ hret = "none" /\ staleCalls = 0 /\ cbpc = "idle"
    /\ filePath = "NULL" /\ fopens = <<>> /\ registered = {} /\ started = FALSE
    /\ sampsArg = 0

\* the decoder part at rest
DecoderIdle ==
    /\ info = <<>> /\ rawData = <<>> /\ dpc = "idle" /\ loc = "while"
    /\ pos = 0 /\ numBytes = 0 /\ numSamples = 0 /\ iSamp = 0
    /\ data = <<>> /\ ints = <<>> /\ ch = 0 /\ bitPos = 0 /\ byteCount = 0
    /\ blockStart = <<>> /\ size = 0 /\ result = FALSE

\* the parser part at rest, for the specifications of the other parts
ParserIdle ==
    /\ lines = <<>> /\ ppc = "idle" /\ fpos = 1 /\ stuck = FALSE
    /\ pinfo = <<>> /\ pi = 0 /\ channelNum = 0 /\ coeffBuff = <<>> /\ buffs = <<>>
    /\ junk = 0 /\ junkBuff = <<>> /\ presult = "none"


(***************************************************************************)
(* 32-bit words.                                                           *)
(***************************************************************************)
MaxLong == (2^30 - 1) + 2^30
MinLong == (-MaxLong) - 1

\* a + b modulo 2^32, as a signed pattern
Add32(a, b) ==
    IF a >= 0 /\ b >= 0 /\ a > MaxLong - b THEN ((a - MaxLong) - 1) + ((b - MaxLong) - 1)
    ELSE IF a < 0 /\ b < 0 /\ a < MinLong - b THEN ((a + MaxLong) + 1) + ((b + MaxLong) + 1)
    ELSE a + b

Sub32(a, b) == IF b = MinLong THEN Add32(a, MinLong) ELSE Add32(a, -b)

\* the low 31 bits of a word, and its sign bit put back
Low31(x) == IF x >= 0 THEN x ELSE (x + MaxLong) + 1
WithSign(low, neg) == IF neg THEN (low - MaxLong) - 1 ELSE low

\* x << k on a 32-bit word, 0 <= k <= 31
Shl32(x, k) ==
    IF k = 0 THEN x
    ELSE LET low == IF k = 1 THEN Low31(x) ELSE x % (2^(32 - k))
             half == 2^(31 - k)
         IN  (IF low >= half THEN (low - half) - half ELSE low) * (2^(k - 1)) * 2

RECURSIVE AndNat(_, _)
AndNat(a, b) ==
    IF a = 0 \/ b = 0 THEN 0
    ELSE (a % 2) * (b % 2) + 2 * AndNat(a \div 2, b \div 2)

RECURSIVE OrNat(_, _)
OrNat(a, b) ==
    IF a = 0 THEN b
    ELSE IF b = 0 THEN a
    ELSE (IF (a % 2) + (b % 2) > 0 THEN 1 ELSE 0) + 2 * OrNat(a \div 2, b \div 2)

And32(a, b) == WithSign(AndNat(Low31(a), Low31(b)), a < 0 /\ b < 0)
Or32(a, b) == WithSign(OrNat(Low31(a), Low31(b)), a < 0 \/ b < 0)

Min(a, b) == IF a < b THEN a ELSE b

(***************************************************************************)
(* GraphAcquiredCompactedData.c: the inputs of the decoder.                *)
(***************************************************************************)
\* ChannelInfo, lines 66-77; the coefficient chain is a sequence
ChannelInfo(res, raw, just, sgn, ctype, csize, order, coeffs) ==
    [rawSampleResolution |-> res, rawSampleSizeInBits |-> raw,
     rawSampleJustification |-> just, signedNumber |-> sgn,
     compressionType |-> ctype, compressedSampleSizeInBits |-> csize,
     compressionByteOrder |-> order, polynomialScalingCoeffChain |-> coeffs]

\* channel records a header can declare (any file is a possible input)
ChanCfgs ==
    { ChannelInfo(16, 16, "Right", FALSE, "None", 16, "LittleEndian", <<0, 1>>),
      ChannelInfo(16, 16, "Right", TRUE, "None", 16, "LittleEndian", <<0, 1>>),
      ChannelInfo(16, 16, "Right", TRUE, "None", 16, "BigEndian", <<3, 2>>),
      ChannelInfo(8, 8, "Right", TRUE, "None", 8, "LittleEndian", <<0, 1>>),
      ChannelInfo(8, 8, "Right", FALSE, "None", 8, "LittleEndian", <<1, 0, 1>>),
      ChannelInfo(24, 24, "Right", TRUE, "None", 24, "BigEndian", <<0, 1>>),
      ChannelInfo(24, 24, "Right", FALSE, "None", 24, "LittleEndian", <<5>>),
      ChannelInfo(12, 16, "Right", TRUE, "LosslessPacking", 12, "BigEndian", <<0, 1>>),
      ChannelInfo(12, 16, "Right", FALSE, "LosslessPacking", 12, "BigEndian", <<1, 1>>),
      ChannelInfo(5, 8, "Right", TRUE, "LosslessPacking", 5, "BigEndian", <<0, 1>>),
      ChannelInfo(8, 16, "Right", TRUE, "LosslessPacking", 8, "BigEndian", <<0, 1>>),
      ChannelInfo(16, 16, "Left", TRUE, "LossyLSBRemoval", 12, "BigEndian", <<0, 1>>),
      ChannelInfo(16, 16, "Left", TRUE, "LossyLSBRemoval", 8, "LittleEndian", <<0, 1>>) }

\* the records a second and later channel may differ by
AltCfgs ==
    { ChannelInfo(8, 8, "Right", TRUE, "None", 8, "LittleEndian", <<0, 1>>),
      ChannelInfo(12, 16, "Right", FALSE, "LosslessPacking", 12, "BigEndian", <<1, 1>>),
      ChannelInfo(16, 16, "Right", TRUE, "None", 16, "BigEndian", <<3, 2>>) }

\* byte streams the data region is a prefix of
StreamHead ==
    << <<1, 0, 2, 0, 255, 255, 0, 128, 127, 255>>,
       <<255, 128, 1, 165, 90, 255, 7, 0, 200, 16>>,
       <<128, 0, 255, 127, 1, 2, 240, 15, 255, 255>> >>

StreamByte(s, i) ==
    IF i <= Len(StreamHead[s]) THEN StreamHead[s][i] ELSE (i * 73 + s * 41) % 256

DataRegions == { [i \in 1..n |-> StreamByte(s, i)] : s \in 1..Len(StreamHead), n \in 0..MaxBytes }

RECURSIVE SumCompressedBits(_, _)
SumCompressedBits(chans, k) ==
    IF k = 0 THEN 0 ELSE chans[k].compressedSampleSizeInBits + SumCompressedBits(chans, k - 1)

\* bytes one block of the declared shape occupies (bits rounded up to bytes)
BlockBytes(chans, rbs) == (rbs * SumCompressedBits(chans, Len(chans)) + 7) \div 8

\* DataFileInfo, lines 79-87
DataFileInfo(n, rbs, pad, a, b) ==
    LET chans == [i \in 1..n |-> IF i = 1 THEN a ELSE b]
    IN  [numberOfChannels |-> n, readBlockSize |-> rbs,
         readBlockSizeInBytes |-> BlockBytes(chans, rbs) + pad,
         channelInfoChain |-> chans]

\* the headers ParseDataFileHeader can hand over
DataFileInfos ==
    UNION { { DataFileInfo(n, rbs, pad, a, b) :
              n \in 1..MaxChannels, rbs \in 0..MaxReadBlockSize, pad \in 0..MaxPad,
              b \in {a} \cup AltCfgs } : a \in ChanCfgs }


(***************************************************************************)
(* The scaling loop shared by both decode functions (lines 303-304 and     *)
(* 374-375): data = 0.0; for each coeff: data += coeff * polynom, then     *)
(* polynom *= val.  The product after the last coefficient is never read   *)
(* and is not computed here.                                               *)
(***************************************************************************)
RECURSIVE ScaleFrom(_, _, _, _)
ScaleFrom(coeffs, val, k, polynom) ==
    IF k > Len(coeffs) THEN 0
    ELSE coeffs[k] * polynom
         + ScaleFrom(coeffs, val, k + 1, IF k < Len(coeffs) THEN polynom * val ELSE polynom)

\* the loop as it would run with polynom starting at val instead of 1.0
ScalePowerAhead(coeffs, val) == ScaleFrom(coeffs, val, 1, val)

Scale(coeffs, val) == ScaleFrom(coeffs, val, 1, 1)

(***************************************************************************)
(* DecodeDataWithoutPacking, lines 263-312.                                *)
(***************************************************************************)
\* line 293: val += *rawData++ << iByte * 8   (int shift, 32 bits)
RECURSIVE ReadLittleEndian(_, _, _)
ReadLittleEndian(bs, iByte, val) ==
    IF iByte >= Len(bs) THEN val
    ELSE ReadLittleEndian(bs, iByte + 1, Add32(val, Shl32(bs[iByte + 1], iByte * 8)))

\* line 296: val = (val<<8) + *rawData++
RECURSIVE ReadBigEndian(_, _, _)
ReadBigEndian(bs, iByte, val) ==
    IF iByte >= Len(bs) THEN val
    ELSE ReadBigEndian(bs, iByte + 1, Add32(Shl32(val, 8), bs[iByte + 1]))

\* lines 291-296: the bytes read and the value assembled from them
ReadBytes(chan, bs) ==
    IF chan.compressionByteOrder = "LittleEndian"
    THEN ReadLittleEndian(bs, 0, 0)
    ELSE ReadBigEndian(bs, 0, 0)

\* line 285: signmask = 1 << (size-1)
UnpackedSignmask(sz) == Shl32(1, sz - 1)

\* line 286: extendmask = 0xFFFFFFFF - (1 << (32-size)) + 1
UnpackedExtendmask(sz) == Add32(Sub32(-1, Shl32(1, 32 - sz)), 1)

\* lines 298-300: if( chan->signedNumber && size<32 && val&signmask ) val |= extendmask
UnpackedExtendSign(chan, val) ==
    LET sz == chan.rawSampleSizeInBits
    IN  IF chan.signedNumber /\ sz < 32 /\ And32(val, UnpackedSignmask(sz)) # 0
        THEN Or32(val, UnpackedExtendmask(sz))
        ELSE val

\* lines 275-305: the channel loop of one sample; st carries the cursor.
\* Here and in the packed path a value that is used more than once is bound
\* once, as the one element of a set (x \in {e}), so that it is computed once.
RECURSIVE UnpackedChannels(_, _, _)
UnpackedChannels(inf, st0, iChan) ==
    CHOOSE r \in
      { IF iChan > inf.numberOfChannels THEN st
        ELSE LET chan == inf.channelInfoChain[iChan]
                 bytes == chan.rawSampleSizeInBits \div 8
                 n == Min(bytes, st.numBytes)
                 bs == [i \in 1..n |-> rawData[st.pos + i]]
             IN  CHOOSE q \in
                   { CHOOSE p \in
                       { UnpackedChannels(inf,
                           [pos |-> st.pos + n, numBytes |-> st.numBytes - n,
                            vals |-> Append(st.vals, val),
                            outs |-> Append(st.outs,
                                            Scale(chan.polynomialScalingCoeffChain, val))],
                           iChan + 1)
                         : val \in {UnpackedExtendSign(chan, raw)} } : TRUE
                     : raw \in {ReadBytes(chan, bs)} } : TRUE
        : st \in {st0} } : TRUE

\* data[iChan][numSamples] = v: store at index numSamples (0-based) of channel iChan
Store(arr, vs, n) ==
    [c \in DOMAIN arr |->
        IF c > Len(vs) THEN arr[c]
        ELSE IF n < Len(arr[c]) THEN [arr[c] EXCEPT ![n + 1] = vs[c]]
        ELSE Append(arr[c], vs[c])]

\* line 269: while( numBytes )
UnpackedWhile ==
    /\ dpc = "unpacked" /\ loc = "while"
    /\ IF numBytes # 0
       THEN /\ loc' = "for" /\ iSamp' = 0 /\ dpc' = dpc
            /\ blockStart' = IF Len(blockStart) < Len(rawData)
                             THEN Append(blockStart, pos) ELSE blockStart
       ELSE /\ dpc' = "return" /\ UNCHANGED <<loc, iSamp, blockStart>>
    /\ UNCHANGED <<info, rawData, pos, numBytes, numSamples, data, ints, ch, bitPos,
                   byteCount, size, result>>

\* lines 271-307: one pass of the sample loop
UnpackedSample ==
    /\ dpc = "unpacked" /\ loc = "for" /\ iSamp < info.readBlockSize
    /\ \E st \in {UnpackedChannels(info,
                    [pos |-> pos, numBytes |-> numBytes, vals |-> <<>>, outs |-> <<>>], 1)} :
           /\ pos' = st.pos
           /\ numBytes' = st.numBytes
           /\ data' = Store(data, st.outs, numSamples)
           /\ ints' = Store(ints, st.vals, numSamples)
    /\ numSamples' = numSamples + 1
    /\ iSamp' = iSamp + 1
    /\ UNCHANGED <<info, rawData, dpc, loc, ch, bitPos, byteCount, blockStart, size, result>>

\* line 271: the sample loop ends
UnpackedBlockEnd ==
    /\ dpc = "unpacked" /\ loc = "for" /\ iSamp >= info.readBlockSize
    /\ loc' = "while"
    /\ UNCHANGED <<info, rawData, dpc, pos, numBytes, numSamples, iSamp, data, ints, ch,
                   bitPos, byteCount, blockStart, size, result>>


(***************************************************************************)
(* DecodeDataWithPacking, lines 314-383.                                   *)
(***************************************************************************)
\* line 350 with the bits taken from the low end of the byte
NextBitLsbFirst(c, bp) == (c \div (2^bp)) % 2

\* line 350: (ch >> (8-bitPos-1)) & 1
NextBit(c, bp) == (c \div (2^(8 - bp - 1))) % 2

\* lines 345-364: while( bitCount<size ); b.err is the goto Error of line 357
RECURSIVE ExtractBits(_, _, _)
ExtractBits(inf, b0, sz) ==
    CHOOSE r \in
      { IF b.err \/ b.bitCount >= sz THEN b
        ELSE LET val1 == Add32(Shl32(b.val, 1), NextBit(b.ch, b.bitPos))
                 bp1 == b.bitPos + 1
                 fetch == bp1 = 8 /\ b.byteCount < inf.readBlockSizeInBytes
             IN  ExtractBits(inf,
                     IF ~fetch
                     THEN [b EXCEPT !.val = val1, !.bitCount = @ + 1, !.bitPos = bp1]
                     ELSE IF b.numBytes = 0
                     THEN [b EXCEPT !.val = val1, !.bitCount = @ + 1, !.bitPos = 0, !.err = TRUE]
                     ELSE [b EXCEPT !.val = val1, !.bitCount = @ + 1, !.bitPos = 0,
                                    !.ch = rawData[b.pos + 1], !.pos = @ + 1,
                                    !.numBytes = @ - 1, !.byteCount = @ + 1],
                     sz)
        : b \in {b0} } : TRUE

\* line 339 with the raw sample size taken for either justification
PackedLsbRawWidth(chan) == chan.rawSampleSizeInBits - chan.compressedSampleSizeInBits

\* line 339: lsb
PackedLsb(chan) ==
    (IF chan.rawSampleJustification = "Left"
     THEN chan.rawSampleSizeInBits ELSE chan.rawSampleResolution)
    - chan.compressedSampleSizeInBits

\* line 341: signmask = 1 << (realsize-1)
PackedSignmask(realsize) == Shl32(1, realsize - 1)

\* line 342: extendmask = 0xFFFFFFFF - (1 << realsize) + 1
PackedExtendmask(realsize) == Add32(Sub32(-1, Shl32(1, realsize)), 1)

\* lines 366-371: val <<= lsb, then the sign extension
PackedExtendSign(chan, val0) ==
    LET lsb == PackedLsb(chan)
        realsize == chan.compressedSampleSizeInBits + lsb
        val == Shl32(val0, lsb)
    IN  IF chan.signedNumber /\ realsize < 32 /\ And32(val, PackedSignmask(realsize)) # 0
        THEN Or32(val, PackedExtendmask(realsize))
        ELSE val

\* lines 330-376: the channel loop of one sample
RECURSIVE PackedChannels(_, _, _)
PackedChannels(inf, st0, iChan) ==
    CHOOSE r \in
      { IF st.err \/ iChan > inf.numberOfChannels THEN st
        ELSE LET chan == inf.channelInfoChain[iChan]
             IN  CHOOSE q \in
                   { CHOOSE p \in
                       { PackedChannels(inf,
                           [ch |-> b.ch, bitPos |-> b.bitPos, pos |-> b.pos,
                            numBytes |-> b.numBytes, byteCount |-> b.byteCount, err |-> b.err,
                            vals |-> IF b.err THEN st.vals ELSE Append(st.vals, val),
                            outs |-> IF b.err THEN st.outs
                                     ELSE Append(st.outs,
                                                 Scale(chan.polynomialScalingCoeffChain, val))],
                           iChan + 1)
                         : val \in {PackedExtendSign(chan, b.val)} } : TRUE
                     : b \in {ExtractBits(inf,
                                 [val |-> 0, bitCount |-> 0, ch |-> st.ch, bitPos |-> st.bitPos,
                                  pos |-> st.pos, numBytes |-> st.numBytes,
                                  byteCount |-> st.byteCount, err |-> FALSE],
                                 chan.compressedSampleSizeInBits)} } : TRUE
        : st \in {st0} } : TRUE

\* lines 320-324: while( numBytes ) { bitPos=0; ch=*rawData++; byteCount=1; --numBytes;
PackedWhile ==
    /\ dpc = "packed" /\ loc = "while"
    /\ IF numBytes # 0
       THEN /\ loc' = "for" /\ iSamp' = 0 /\ dpc' = dpc
            /\ bitPos' = 0 /\ ch' = rawData[pos + 1] /\ byteCount' = 1
            /\ pos' = pos + 1 /\ numBytes' = numBytes - 1
            /\ blockStart' = Append(blockStart, pos)
       ELSE /\ dpc' = "return"
            /\ UNCHANGED <<loc, iSamp, bitPos, ch, byteCount, pos, numBytes, blockStart>>
    /\ UNCHANGED <<info, rawData, numSamples, data, ints, size, result>>

\* lines 326-378: one pass of the sample loop
PackedSample ==
    /\ dpc = "packed" /\ loc = "for" /\ iSamp < info.readBlockSize
    /\ \E st \in {PackedChannels(info,
                    [ch |-> ch, bitPos |-> bitPos, pos |-> pos, numBytes |-> numBytes,
                     byteCount |-> byteCount, err |-> FALSE, vals |-> <<>>, outs |-> <<>>], 1)} :
           /\ ch' = st.ch /\ bitPos' = st.bitPos /\ pos' = st.pos
           /\ numBytes' = st.numBytes /\ byteCount' = st.byteCount
           /\ data' = Store(data, st.outs, numSamples)
           /\ ints' = Store(ints, st.vals, numSamples)
           /\ IF st.err
              THEN dpc' = "return" /\ UNCHANGED <<numSamples, iSamp>>
              ELSE dpc' = dpc /\ numSamples' = numSamples + 1 /\ iSamp' = iSamp + 1
    /\ UNCHANGED <<info, rawData, loc, blockStart, size, result>>

\* line 326: the sample loop ends
PackedBlockEnd ==
    /\ dpc = "packed" /\ loc = "for" /\ iSamp >= info.readBlockSize
    /\ loc' = "while"
    /\ UNCHANGED <<info, rawData, dpc, pos, numBytes, numSamples, iSamp, data, ints, ch,
                   bitPos, byteCount, blockStart, size, result>>

(***************************************************************************)
(* ReadScaleAndPlotDataFileData, lines 107-144.                            *)
(***************************************************************************)
\* lines 117-119: entries allocated for each channel's output array
AllocSize(inf, nBytes) ==
    LET sz == nBytes \div inf.numberOfChannels
        first == inf.channelInfoChain[1]
    IN  IF first.compressionType = "LossyLSBRemoval"
        THEN (sz * 8) \div first.compressedSampleSizeInBits + 20
        ELSE sz

\* the test as it would read without the byte-order condition
UsesUnpackedPathAnyOrder(inf) ==
    LET first == inf.channelInfoChain[1]
    IN  \/ first.compressionType = "None"
        \/ first.compressedSampleSizeInBits % 8 = 0

\* lines 124-125: the test that selects DecodeDataWithoutPacking
UsesUnpackedPath(inf) ==
    LET first == inf.channelInfoChain[1]
    IN  \/ first.compressionType = "None"
        \/ (first.compressionByteOrder = "LittleEndian"
            /\ first.compressedSampleSizeInBits % 8 = 0)

\* lines 116-132: header parsed, data region read, arrays allocated, path chosen
DecodeStart ==
    /\ dpc = "start"
    /\ size' = AllocSize(info, numBytes)
    /\ dpc' = IF UsesUnpackedPath(info) THEN "unpacked" ELSE "packed"
    /\ loc' = "while"
    /\ UNCHANGED <<info, rawData, pos, numBytes, numSamples, iSamp, data, ints, ch,
                   bitPos, byteCount, blockStart, result>>

\* lines 133-143: return numSamples>0
DecodeReturn ==
    /\ dpc = "return"
    /\ result' = (numSamples > 0)
    /\ dpc' = "done"
    /\ UNCHANGED <<info, rawData, loc, pos, numBytes, numSamples, iSamp, data, ints, ch,
                   bitPos, byteCount, blockStart, size>>

\* the state on entry: ParseDataFileHeader returned info, ReadDataFileData the region
InitDecode ==
    /\ info \in DataFileInfos
    /\ rawData \in DataRegions
    /\ numBytes = Len(rawData)
    /\ dpc = "start" /\ loc = "while"
    /\ pos = 0 /\ numSamples = 0 /\ iSamp = 0
    /\ data = [c \in 1..info.numberOfChannels |-> <<>>]
    /\ ints = [c \in 1..info.numberOfChannels |-> <<>>]
    /\ ch = 0 /\ bitPos = 0 /\ byteCount = 0
    /\ blockStart = <<>>
    /\ size = 0
    /\ result = FALSE
    /\ ParserIdle
    /\ WriterIdle
    /\ ExamplesIdle

NextDecode ==
    \/ DecodeStart /\ UNCHANGED <<pvars, wvars, evars>>
    \/ UnpackedWhile /\ UNCHANGED <<pvars, wvars, evars>>
    \/ UnpackedSample /\ UNCHANGED <<pvars, wvars, evars>>
    \/ UnpackedBlockEnd /\ UNCHANGED <<pvars, wvars, evars>>
    \/ PackedWhile /\ UNCHANGED <<pvars, wvars, evars>>
    \/ PackedSample /\ UNCHANGED <<pvars, wvars, evars>>
    \/ PackedBlockEnd /\ UNCHANGED <<pvars, wvars, evars>>
    \/ DecodeReturn /\ UNCHANGED <<pvars, wvars, evars>>

SpecDecode == InitDecode /\ [][NextDecode]_vars

\* the decoder is one thread of a program that runs alone: its next step is
\* always taken
SpecDecodeFair == SpecDecode /\ WF_vars(NextDecode)


(***************************************************************************)
(* What the file format says a sample is, stated without the decode loops. *)
(***************************************************************************)
RECURSIVE PolyAt(_, _, _)
PolyAt(coeffs, v, k) ==
    IF k > Len(coeffs) THEN 0 ELSE coeffs[k] + v * PolyAt(coeffs, v, k + 1)

\* sum over k of c[k] * v^k
Polynomial(coeffs, v) == PolyAt(coeffs, v, 1)

RECURSIVE BytesValue(_, _, _, _)
\* the unsigned integer held by the n bytes after offset off, in the given byte order
BytesValue(off, n, order, i) ==
    IF i > n THEN 0
    ELSE rawData[off + i] * (256^(IF order = "LittleEndian" THEN i - 1 ELSE n - i))
         + BytesValue(off, n, order, i + 1)

\* bit p of the data region, bit 0 being the most significant bit of byte 0
StreamBit(p) == (rawData[(p \div 8) + 1] \div (2^(7 - (p % 8)))) % 2

RECURSIVE BitsValue(_, _, _)
\* the unsigned integer held by the w bits after bit offset p, first bit most significant
BitsValue(p, w, i) ==
    IF i >= w THEN 0 ELSE StreamBit(p + i) * (2^(w - 1 - i)) + BitsValue(p, w, i + 1)

\* the value of a w-bit pattern: two's complement for a signed channel
TwosComplement(v, w, sgn) == IF sgn /\ v >= 2^(w - 1) THEN v - 2^w ELSE v

RECURSIVE SumRawBytes(_, _)
SumRawBytes(chans, k) ==
    IF k = 0 THEN 0 ELSE (chans[k].rawSampleSizeInBits \div 8) + SumRawBytes(chans, k - 1)

SameRawSize(inf) ==
    \A c \in 1..inf.numberOfChannels :
        inf.channelInfoChain[c].rawSampleSizeInBits = inf.channelInfoChain[1].rawSampleSizeInBits

\* all channels share raw sample size, compression type, compressed size and byte order
SameFormat(inf) ==
    \A c \in 1..inf.numberOfChannels :
        LET x == inf.channelInfoChain[c]
            y == inf.channelInfoChain[1]
        IN  /\ x.rawSampleSizeInBits = y.rawSampleSizeInBits
            /\ x.compressionType = y.compressionType
            /\ x.compressedSampleSizeInBits = y.compressedSampleSizeInBits
            /\ x.compressionByteOrder = y.compressionByteOrder

OnUnpackedPath == dpc \in {"unpacked", "return", "done"} /\ UsesUnpackedPath(info)
OnPackedPath == dpc \in {"packed", "return", "done"} /\ ~UsesUnpackedPath(info)

\* byte offset of slot n*NumberOfChannels + c (c counted from 1 here)
SlotOffset(n, c) ==
    (n * info.numberOfChannels + (c - 1)) * (info.channelInfoChain[1].rawSampleSizeInBits \div 8)

SlotInRegion(n, c) ==
    SlotOffset(n, c) + (info.channelInfoChain[c].rawSampleSizeInBits \div 8) <= Len(rawData)

\* C3: on the unpacked path output sample n of channel c is the scaling
\* polynomial applied to the integer held by the RawSampleSizeInBits/8 bytes at
\* slot n*NumberOfChannels + c of the data region, in the channel's byte order
\* (for a signed channel the integer is the two's-complement value, as C4 says).
C3_UnpackedSampleFromSlot ==
    (OnUnpackedPath /\ SameRawSize(info)) =>
        \A c \in 1..info.numberOfChannels : \A n \in 0..(numSamples - 1) :
            SlotInRegion(n, c) =>
                LET chan == info.channelInfoChain[c]
                    w == chan.rawSampleSizeInBits
                    raw == BytesValue(SlotOffset(n, c), w \div 8, chan.compressionByteOrder, 1)
                IN  data[c][n + 1] =
                        Polynomial(chan.polynomialScalingCoeffChain,
                                   TwosComplement(raw, w, chan.signedNumber))

\* C4: on the unpacked path a signed channel of width 8, 16 or 24 decodes a raw
\* value with bit w-1 set to its two's-complement negative value; values with
\* bit w-1 clear and all values of unsigned channels are unchanged.
C4_UnpackedSignExtension ==
    (OnUnpackedPath /\ SameRawSize(info)) =>
        \A c \in 1..info.numberOfChannels : \A n \in 0..(numSamples - 1) :
            (SlotInRegion(n, c) /\ info.channelInfoChain[c].rawSampleSizeInBits \in {8, 16, 24}) =>
                LET chan == info.channelInfoChain[c]
                    w == chan.rawSampleSizeInBits
                    raw == BytesValue(SlotOffset(n, c), w \div 8, chan.compressionByteOrder, 1)
                IN  ints[c][n + 1] =
                        (IF chan.signedNumber /\ raw >= 2^(w - 1) THEN raw - 2^w ELSE raw)

\* bit offset, inside its block, of sample j of channel c on the packed path
BitOffsetInBlock(j, c) ==
    j * SumCompressedBits(info.channelInfoChain, info.numberOfChannels)
    + SumCompressedBits(info.channelInfoChain, c - 1)

\* C5: on the bit-packed path with lsb = 0 the integer extracted for a sample is
\* the w bits stored for it, read most-significant-bit first, samples following
\* one another without padding bits from the first byte of their block.
C5_PackedBitsRecovered ==
    (dpc = "done" /\ OnPackedPath) =>
        \A c \in 1..info.numberOfChannels : \A n \in 0..(numSamples - 1) :
            LET chan == info.channelInfoChain[c]
                w == chan.compressedSampleSizeInBits
                k == n \div info.readBlockSize
                j == n % info.readBlockSize
            IN  PackedLsb(chan) = 0 =>
                    ints[c][n + 1] =
                        TwosComplement(BitsValue(blockStart[k + 1] * 8 + BitOffsetInBlock(j, c), w, 0),
                                       w, chan.signedNumber)

\* a 12-bit lossless channel has been unpacked across byte boundaries, one
\* sample negative and one positive
C5_Witness ==
    /\ dpc = "done" /\ OnPackedPath
    /\ info.channelInfoChain[1].compressedSampleSizeInBits = 12
    /\ PackedLsb(info.channelInfoChain[1]) = 0
    /\ numSamples >= 3
    /\ \E n \in 1..numSamples : ints[1][n] < 0
    /\ \E n \in 1..numSamples : ints[1][n] > 0

\* C6: decoding a data region whose last block is incomplete returns exactly
\* floor(totalBytes / ReadBlockSizeInBytes) * ReadBlockSize samples per channel,
\* on either path and for every data length, and is not reported as a failure.
C6_TruncatedRegionSampleCount ==
    (dpc = "done" /\ info.readBlockSizeInBytes > 0) =>
        LET whole == (Len(rawData) \div info.readBlockSizeInBytes) * info.readBlockSize
        IN  /\ numSamples = whole
            /\ (whole > 0 => result)

\* C7: a file whose channels do not share raw sample size, compression type,
\* compressed sample size and byte order is rejected and no scaled sample is
\* produced.
C7_MixedFormatsRejected ==
    (dpc = "done" /\ ~SameFormat(info)) =>
        /\ ~result
        /\ numSamples = 0


\* a channel whose samples are stored at their full raw width
FullWidth(chan) ==
    [chan EXCEPT !.compressedSampleSizeInBits = chan.rawSampleSizeInBits,
                 !.rawSampleResolution = chan.rawSampleSizeInBits]

\* C15: for a signed channel of a width of 8 to 31 bits that both paths can
\* decode, the integer the unpacked path makes of a raw bit pattern is the
\* integer the bit-packed path makes of the same pattern at full width; the
\* packed path extends the sign from bit compressedWidth + lsb - 1.
C15_PathsExtendAlike ==
    (dpc = "done" /\ OnUnpackedPath /\ SameRawSize(info)) =>
        \A c \in 1..info.numberOfChannels : \A n \in 0..(numSamples - 1) :
            LET chan == info.channelInfoChain[c]
                w == chan.rawSampleSizeInBits
            IN  (SlotInRegion(n, c) /\ chan.signedNumber /\ w >= 8 /\ w <= 31) =>
                    ints[c][n + 1] =
                        PackedExtendSign(FullWidth(chan),
                            BytesValue(SlotOffset(n, c), w \div 8, chan.compressionByteOrder, 1))

\* the read position of the decoder, in bits from the start of the data region
CursorBits(p, bp) == IF UsesUnpackedPath(info) THEN p * 8 ELSE (p - 1) * 8 + bp

\* bits one sample of every channel takes in the stream
RowBits == SumCompressedBits(info.channelInfoChain, info.numberOfChannels)

\* C16: a step that decodes one sample of every channel, all of its bits being
\* in the data region, advances the read position by the sum of the channels'
\* CompressedSampleSizeInBits, on either path.
C16_AdvanceByCompressedSize ==
    [][(dpc \in {"unpacked", "packed"} /\ loc = "for" /\ numSamples' = numSamples + 1
          /\ CursorBits(pos, bitPos) + RowBits <= Len(rawData) * 8)
        => CursorBits(pos', bitPos') - CursorBits(pos, bitPos) = RowBits]_vars

\* samples, per channel, of which every bit lies in the data region: block k
\* begins at byte k * ReadBlockSizeInBytes and holds ReadBlockSize samples
CompleteSamples ==
    LET blocks == Len(rawData) \div info.readBlockSizeInBytes
        rest == (Len(rawData) % info.readBlockSizeInBytes) * 8
    IN  blocks * info.readBlockSize + Min(info.readBlockSize, rest \div RowBits)

\* C17: when the decode loop of either path has returned, the number of samples
\* it returns is the number of samples all of whose bits were in the data
\* region: none made from missing bytes is counted, none that was whole is left out.
C17_OnlyWholeSamplesCounted ==
    (dpc = "done" /\ SameFormat(info) /\ info.readBlockSizeInBytes > 0)
        => numSamples = CompleteSamples

\* C18 as the code has it: on the bit-packed path the integer of a sample is
\* the compressed value shifted left by lsb, where lsb is RawSampleSizeInBits -
\* CompressedSampleSizeInBits for Left justification and RawSampleResolution -
\* CompressedSampleSizeInBits for Right justification; its low lsb bits are
\* zero and its sign is taken from bit CompressedSampleSizeInBits + lsb - 1.
C18_PackedShiftByJustifiedWidth ==
    (dpc = "done" /\ OnPackedPath) =>
        \A c \in 1..info.numberOfChannels : \A n \in 0..(numSamples - 1) :
            LET chan == info.channelInfoChain[c]
                w == chan.compressedSampleSizeInBits
                lsb == (IF chan.rawSampleJustification = "Left"
                        THEN chan.rawSampleSizeInBits ELSE chan.rawSampleResolution) - w
                k == n \div info.readBlockSize
                j == n % info.readBlockSize
                v == BitsValue(blockStart[k + 1] * 8 + BitOffsetInBlock(j, c), w, 0)
            IN  /\ lsb >= 0
                /\ ints[c][n + 1] = TwosComplement(v * (2^lsb), w + lsb, chan.signedNumber)
                /\ ints[c][n + 1] % (2^lsb) = 0

\* a Right-justified 12-bit channel in 16-bit raw samples has been unpacked
\* to a negative 12-bit value, and so was not shifted
C18_Witness ==
    /\ dpc = "done" /\ OnPackedPath
    /\ info.channelInfoChain[1].rawSampleJustification = "Right"
    /\ info.channelInfoChain[1].rawSampleSizeInBits = 16
    /\ info.channelInfoChain[1].compressedSampleSizeInBits = 12
    /\ info.channelInfoChain[1].signedNumber
    /\ numSamples >= 1
    /\ \E n \in 1..numSamples : ints[1][n] < 0 /\ ints[1][n] >= -2048 /\ ints[1][n] % 2 = 1

\* C18: on the bit-packed path the integer of a sample is the compressed value
\* shifted left by lsb = RawSampleSizeInBits - CompressedSampleSizeInBits, for
\* Left and for Right justification, so that its width is the raw width.
C18_PackedShiftByRawWidth ==
    (dpc = "done" /\ OnPackedPath) =>
        \A c \in 1..info.numberOfChannels : \A n \in 0..(numSamples - 1) :
            LET chan == info.channelInfoChain[c]
                w == chan.compressedSampleSizeInBits
                lsb == chan.rawSampleSizeInBits - w
                k == n \div info.readBlockSize
                j == n % info.readBlockSize
                v == BitsValue(blockStart[k + 1] * 8 + BitOffsetInBlock(j, c), w, 0)
            IN  ints[c][n + 1] = TwosComplement(v * (2^lsb), w + lsb, chan.signedNumber)

\* C19: on the bit-packed path block k, counted from 0, is read from byte
\* k * ReadBlockSizeInBytes of the data region on, and no byte behind the
\* block is read while it is decoded.
C19_BlocksOnDeclaredBoundaries ==
    OnPackedPath =>
        /\ \A k \in 1..Len(blockStart) : blockStart[k] = (k - 1) * info.readBlockSizeInBytes
        /\ pos <= Len(blockStart) * info.readBlockSizeInBytes


\* C21: the unpacked decode path is chosen exactly when the first channel's
\* compression type is None, or its compression byte order is LittleEndian
\* and its compressed sample size is a multiple of 8 bits; in every other
\* case the bit-packed path is chosen.
C21_UnpackedIffNoneOrLittleEndianBytes ==
    dpc \in {"unpacked", "packed"} =>
        LET first == info.channelInfoChain[1]
        IN  (dpc = "unpacked") <=>
                \/ first.compressionType = "None"
                \/ (first.compressionByteOrder = "LittleEndian"
                    /\ first.compressedSampleSizeInBits % 8 = 0)

\* a BigEndian first channel compressed to whole bytes is decoded bit-packed
C21_Witness ==
    LET first == info.channelInfoChain[1]
    IN  /\ dpc = "packed" /\ numSamples > 0
        /\ first.compressionType # "None"
        /\ first.compressionByteOrder = "BigEndian"
        /\ first.compressedSampleSizeInBits % 8 = 0

\* C21 as stated: the unpacked path is chosen exactly when the first
\* channel's compression type is None or its compressed sample size is a
\* multiple of 8 bits.
C21_UnpackedIffNoneOrWholeBytes ==
    dpc \in {"unpacked", "packed"} =>
        LET first == info.channelInfoChain[1]
        IN  (dpc = "unpacked") <=>
                \/ first.compressionType = "None"
                \/ first.compressedSampleSizeInBits % 8 = 0

\* C22: on both decode paths the scaled sample stored for raw integer v of a
\* channel with coefficients c[0..n-1] is the sum over k of c[k]*v^k; with a
\* single coefficient it is c[0] whatever v is, and it is a function of that
\* sample's own v alone.
C22_ScaledIsPolynomialOfRaw ==
    \A c \in DOMAIN data : \A n \in 1..Min(Len(data[c]), Len(ints[c])) :
        LET coeffs == info.channelInfoChain[c].polynomialScalingCoeffChain
        IN  /\ data[c][n] = Polynomial(coeffs, ints[c][n])
            /\ Len(coeffs) = 1 => data[c][n] = coeffs[1]

\* two samples of differing raw values behind a one-coefficient channel, next
\* to a channel whose scaled value follows its raw value
C22_Witness ==
    /\ dpc = "done" /\ numSamples >= 2
    /\ \E c \in DOMAIN data :
          /\ Len(info.channelInfoChain[c].polynomialScalingCoeffChain) = 1
          /\ ints[c][1] # ints[c][2] /\ data[c][1] = data[c][2]
    /\ \E c \in DOMAIN data :
          /\ Len(info.channelInfoChain[c].polynomialScalingCoeffChain) = 2
          /\ ints[c][1] > 1 /\ data[c][1] # data[c][2]

\* C24: neither decode path stores a sample at an index at or beyond the
\* number of entries allocated for each channel's output array.
C24_StoresWithinAllocation ==
    dpc # "start" => \A c \in DOMAIN data : Len(data[c]) <= size

\* C27: for every header the parser accepts and every data region both
\* decode loops terminate: the decoder returns.
C27_DecodeTerminates ==
    <>(dpc = "done")

(***************************************************************************)
(* ParseDataFileHeader, lines 146-220.                                     *)
(*                                                                         *)
(* The text of the file is a sequence of lines [k, v]: k is the text up to *)
(* and including '=' (the whole line for a section line), v the items of   *)
(* the value, none of which holds white space.  fscanf is modelled by what *)
(* it does on such text: literal text must match character by character,   *)
(* %s and %ld first skip white space (line ends included), "\n" in a       *)
(* format skips white space, and the value returned is EOF (-1) only when  *)
(* the end of the file is met before the first conversion.                 *)
(***************************************************************************)
Line(k, v) == [k |-> k, v |-> v]

Numerals == {"-1", "0", "1", "2", "3", "4", "5", "8", "16", "0000000400"}

\* strtol on a numeral
NumVal(str) ==
    CASE str = "-1" -> -1 [] str = "0" -> 0 [] str = "1" -> 1 [] str = "2" -> 2
      [] str = "3" -> 3 [] str = "4" -> 4 [] str = "5" -> 5 [] str = "8" -> 8
      [] str = "16" -> 16 [] str = "0000000400" -> 400

\* the first character of a key
KeyHead(k) ==
    CASE k \in {"[DAQCompressedBinaryFile]", "[Task0]", "[Task0Channel", "[BinaryData]"} -> "["
      [] k = "Version=" -> "V"
      [] k = "HeaderSize=" -> "H"
      [] k \in {"NumberOfTasks=", "Name=", "NumberOfChannels="} -> "N"
      [] k \in {"ReadBlockSize=", "ReadBlockSizeInBytes=", "RawSampleResolution=",
                "RawSampleSizeInBits=", "RawSampleJustification="} -> "R"
      [] k = "SignedNumber=" -> "S"
      [] k \in {"CompressionType=", "CompressedSampleSizeInBits=", "CompressionByteOrder="} -> "C"
      [] k = "PolynomialScalingCoeffs=" -> "P"
      [] k = "Begin=Here" -> "B"

RECURSIVE Joined(_, _)
Joined(v, i) == IF i > Len(v) THEN "" ELSE v[i] \o Joined(v, i + 1)

\* a line as the single white-space-free token %s reads it
Text(l) == l.k \o Joined(l.v, 1)

\* unsigned comparison of two uInt32 words
ULess32(a, b) == IF (a < 0) = (b < 0) THEN a < b ELSE b < 0

\* the literal text that opens a directive, against the stream
Literal(st, key) ==
    IF st.stuck THEN [st EXCEPT !.ret = 0, !.hit = FALSE]
    ELSE IF st.pos > Len(lines) THEN [st EXCEPT !.ret = -1, !.hit = FALSE]
    ELSE IF lines[st.pos].k = key THEN [st EXCEPT !.ret = 0, !.hit = TRUE]
    ELSE [st EXCEPT !.ret = 0, !.hit = FALSE,
                    !.stuck = (KeyHead(lines[st.pos].k) = KeyHead(key))]

\* fscanf(f,"<key>\n")
ScanLiteral(st, d) ==
    LET l == Literal(st, d.key)
    IN  IF ~l.hit THEN l
        ELSE IF lines[st.pos].v = <<>> THEN [l EXCEPT !.pos = @ + 1]
        ELSE [l EXCEPT !.stuck = TRUE]

\* fscanf(f,"<key>%s\n",buf)
ScanString(st, d) ==
    LET l == Literal(st, d.key)
    IN  IF ~l.hit THEN l
        ELSE IF lines[st.pos].v # <<>>
        THEN [l EXCEPT !.pos = @ + 1, !.ret = 1, !.env[d.field] = lines[st.pos].v]
        ELSE IF st.pos + 1 > Len(lines) THEN [l EXCEPT !.pos = @ + 1, !.ret = -1]
        ELSE [l EXCEPT !.pos = @ + 2, !.ret = 1, !.env[d.field] = <<Text(lines[st.pos + 1])>>]

\* fscanf(f,"<key>%ld\n",&n)
ScanLong(st, d) ==
    LET l == Literal(st, d.key)
        v == lines[st.pos].v
    IN  IF ~l.hit THEN l
        ELSE IF v = <<>>
        THEN IF st.pos + 1 > Len(lines) THEN [l EXCEPT !.pos = @ + 1, !.ret = -1]
             ELSE [l EXCEPT !.pos = @ + 1]
        ELSE IF Len(v) = 1 /\ v[1] \in Numerals
        THEN [l EXCEPT !.pos = @ + 1, !.ret = 1, !.env[d.field] = NumVal(v[1])]
        ELSE [l EXCEPT !.stuck = TRUE]

\* fscanf(f,"[Task0Channel%ld]\n",&channelNum)
ScanChannelTag(st, d) ==
    LET l == Literal(st, d.key)
        v == lines[st.pos].v
    IN  IF ~l.hit THEN l
        ELSE IF Len(v) = 2 /\ v[1] \in Numerals /\ v[2] = "]"
        THEN [l EXCEPT !.pos = @ + 1, !.ret = 1, !.env[d.field] = NumVal(v[1])]
        ELSE [l EXCEPT !.stuck = TRUE]

Scan(st, d) ==
    CASE d.kind = "lit" -> ScanLiteral(st, d)
      [] d.kind = "str" -> ScanString(st, d)
      [] d.kind = "long" -> ScanLong(st, d)
      [] d.kind = "tag" -> ScanChannelTag(st, d)

\* a chain of fscanf(...)<0 || fscanf(...)<0 || ...: stops at the first EOF
RECURSIVE RunScans(_, _, _)
RunScans(st, dirs, k) ==
    IF k > Len(dirs) \/ st.ret < 0 THEN st
    ELSE RunScans(Scan(st, dirs[k]), dirs, k + 1)

Directive(kind, key, field) == [kind |-> kind, key |-> key, field |-> field]

\* lines 157-165
HeadScans ==
    << Directive("lit", "[DAQCompressedBinaryFile]", "none"),
       Directive("str", "Version=", "version"),
       Directive("long", "HeaderSize=", "headerSize"),
       Directive("long", "NumberOfTasks=", "numTasks"),
       Directive("lit", "[Task0]", "none"),
       Directive("str", "Name=", "taskName"),
       Directive("long", "NumberOfChannels=", "numberOfChannels"),
       Directive("long", "ReadBlockSize=", "readBlockSize"),
       Directive("long", "ReadBlockSizeInBytes=", "readBlockSizeInBytes") >>

\* lines 177-186
ChanScans ==
    << Directive("tag", "[Task0Channel", "channelNum"),
       Directive("str", "Name=", "name"),
       Directive("long", "RawSampleResolution=", "rawSampleResolution"),
       Directive("long", "RawSampleSizeInBits=", "rawSampleSizeInBits"),
       Directive("str", "RawSampleJustification=", "justificationBuff"),
       Directive("str", "SignedNumber=", "signedBuff"),
       Directive("str", "CompressionType=", "compBuff"),
       Directive("long", "CompressedSampleSizeInBits=", "compressedSampleSizeInBits"),
       Directive("str", "CompressionByteOrder=", "byteOrderBuff"),
       Directive("str", "PolynomialScalingCoeffs=", "coeffBuff") >>

\* lines 212-213
TailScans ==
    << Directive("lit", "[BinaryData]", "none"),
       Directive("lit", "Begin=Here", "none") >>

\* line 167 with the test of the channel count left out
HeaderRefusedVersionOnly(version, n) == version # <<"1.0.0">>

\* line 167: if( strcmp(info.version,"1.0.0") || info.numberOfChannels<1 ) return NULL
HeaderRefused(version, n) == version # <<"1.0.0">> \/ ULess32(n, 1)

\* line 191: if( channelNum!=i || *coeffBuff=='\0' || *coeffBuff==';' )
ChannelRefused(num, i, buf) == num # i \/ buf = <<>> \/ buf[1] = ";"

\* lines 201-209: strtok(coeffBuff,";") and sscanf(coeffStr,"%le",...) per token;
\* a token that is no number leaves the malloc'ed scalingCoeff unassigned
RECURSIVE CoeffChain(_, _)
CoeffChain(buf, i) ==
    IF i > Len(buf) THEN <<>>
    ELSE IF buf[i] = ";" THEN CoeffChain(buf, i + 1)
    ELSE <<[assigned |-> buf[i] \in Numerals,
            scalingCoeff |-> IF buf[i] \in Numerals THEN NumVal(buf[i]) ELSE junk]>>
         \o CoeffChain(buf, i + 1)

\* coeffBuff after strtok has cut it at the first ';' found behind a token
RECURSIVE AfterStrtok(_, _, _)
AfterStrtok(buf, i, seen) ==
    IF i > Len(buf) THEN <<>>
    ELSE IF buf[i] = ";" THEN (IF seen THEN <<>> ELSE <<";">> \o AfterStrtok(buf, i + 1, FALSE))
    ELSE <<buf[i]>> \o AfterStrtok(buf, i + 1, TRUE)

\* lines 155-168: fopen, the fixed part of the header, version and channel count
ParseHead ==
    /\ ppc = "head"
    /\ LET st == RunScans([pos |-> fpos, stuck |-> stuck, ret |-> 0, hit |-> FALSE,
                           env |-> [version |-> pinfo.version,
                                    headerSize |-> pinfo.headerSize,
                                    numTasks |-> junk,
                                    taskName |-> pinfo.taskName,
                                    numberOfChannels |-> pinfo.numberOfChannels,
                                    readBlockSize |-> pinfo.readBlockSize,
                                    readBlockSizeInBytes |-> pinfo.readBlockSizeInBytes]],
                          HeadScans, 1)
       IN  /\ fpos' = st.pos /\ stuck' = st.stuck
           /\ pinfo' = [pinfo EXCEPT !.version = st.env.version,
                                     !.headerSize = st.env.headerSize,
                                     !.taskName = st.env.taskName,
                                     !.numberOfChannels = st.env.numberOfChannels,
                                     !.readBlockSize = st.env.readBlockSize,
                                     !.readBlockSizeInBytes = st.env.readBlockSizeInBytes]
           /\ IF st.ret < 0 \/ HeaderRefused(st.env.version, st.env.numberOfChannels)
              THEN ppc' = "done" /\ presult' = "NULL"
              ELSE ppc' = "chan" /\ presult' = presult
    /\ pi' = 0
    /\ UNCHANGED <<lines, channelNum, coeffBuff, buffs, junk, junkBuff>>

\* line 156: fopen fails
ParseOpenFails ==
    /\ ppc = "head"
    /\ ppc' = "done" /\ presult' = "NULL"
    /\ UNCHANGED <<lines, fpos, stuck, pinfo, pi, channelNum, coeffBuff, buffs, junk, junkBuff>>

\* lines 170-210: one pass of the channel loop
ParseChannel ==
    /\ ppc = "chan" /\ ULess32(pi, pinfo.numberOfChannels)
    /\ LET st == RunScans([pos |-> fpos, stuck |-> stuck, ret |-> 0, hit |-> FALSE,
                           env |-> [channelNum |-> channelNum,
                                    name |-> junkBuff,
                                    rawSampleResolution |-> junk,
                                    rawSampleSizeInBits |-> junk,
                                    justificationBuff |-> buffs.justificationBuff,
                                    signedBuff |-> buffs.signedBuff,
                                    compBuff |-> buffs.compBuff,
                                    compressedSampleSizeInBits |-> junk,
                                    byteOrderBuff |-> buffs.byteOrderBuff,
                                    coeffBuff |-> coeffBuff]],
                          ChanScans, 1)
           e == st.env
           refused == st.ret < 0 \/ ChannelRefused(e.channelNum, pi, e.coeffBuff)
           chan == [name |-> e.name,
                    rawSampleResolution |-> e.rawSampleResolution,
                    rawSampleSizeInBits |-> e.rawSampleSizeInBits,
                    rawSampleJustification |->
                        IF e.justificationBuff = <<"Left">> THEN "Left" ELSE "Right",
                    signedNumber |-> (e.signedBuff = <<"TRUE">>),
                    compressionType |->
                        IF e.compBuff = <<"LosslessPacking">> THEN "LosslessPacking"
                        ELSE IF e.compBuff = <<"LossyLSBRemoval">> THEN "LossyLSBRemoval"
                        ELSE "None",
                    compressedSampleSizeInBits |-> e.compressedSampleSizeInBits,
                    compressionByteOrder |->
                        IF e.byteOrderBuff = <<"LittleEndian">> THEN "LittleEndian"
                        ELSE "BigEndian",
                    polynomialScalingCoeffChain |-> CoeffChain(e.coeffBuff, 1)]
       IN  /\ fpos' = st.pos /\ stuck' = st.stuck
           /\ channelNum' = e.channelNum
           /\ buffs' = [justificationBuff |-> e.justificationBuff, signedBuff |-> e.signedBuff,
                        compBuff |-> e.compBuff, byteOrderBuff |-> e.byteOrderBuff]
           /\ IF refused
              THEN /\ ppc' = "done" /\ presult' = "NULL"
                   /\ pinfo' = [pinfo EXCEPT !.channelInfoChain = <<>>]
                   /\ coeffBuff' = e.coeffBuff
                   /\ pi' = pi
              ELSE /\ ppc' = ppc /\ presult' = presult
                   /\ pinfo' = [pinfo EXCEPT !.channelInfoChain = Append(@, chan)]
                   /\ coeffBuff' = AfterStrtok(e.coeffBuff, 1, FALSE)
                   /\ pi' = pi + 1
    /\ UNCHANGED <<lines, junk, junkBuff>>

\* lines 171-172: malloc of the ChannelInfo fails
ParseNoMemory ==
    /\ ppc = "chan" /\ ULess32(pi, pinfo.numberOfChannels)
    /\ ppc' = "done" /\ presult' = "NULL"
    /\ UNCHANGED <<lines, fpos, stuck, pinfo, pi, channelNum, coeffBuff, buffs, junk, junkBuff>>

\* lines 212-219: the end of the header
ParseTail ==
    /\ ppc = "chan" /\ ~ULess32(pi, pinfo.numberOfChannels)
    /\ LET st == RunScans([pos |-> fpos, stuck |-> stuck, ret |-> 0, hit |-> FALSE,
                           env |-> [none |-> 0]], TailScans, 1)
       IN  /\ fpos' = st.pos /\ stuck' = st.stuck
           /\ IF st.ret < 0
              THEN presult' = "NULL" /\ pinfo' = [pinfo EXCEPT !.channelInfoChain = <<>>]
              ELSE presult' = "info" /\ pinfo' = pinfo
    /\ ppc' = "done"
    /\ UNCHANGED <<lines, pi, channelNum, coeffBuff, buffs, junk, junkBuff>>

(***************************************************************************)
(* The header texts the parser is run on.                                  *)
(***************************************************************************)
NumStr(n) ==
    CASE n = -1 -> "-1" [] n = 0 -> "0" [] n = 1 -> "1" [] n = 2 -> "2" [] n = 3 -> "3"
      [] n = 4 -> "4"

GoodCoeffs == <<"0", ";", "1", ";">>

\* a channel section: tag "none" leaves the [Task0Channel<n>] line out
SectionText(tag, coeffs) ==
    (IF tag = "none" THEN <<>> ELSE <<Line("[Task0Channel", <<tag, "]">>)>>)
    \o << Line("Name=", <<"Dev1/ai0">>),
          Line("RawSampleResolution=", <<"16">>),
          Line("RawSampleSizeInBits=", <<"16">>),
          Line("RawSampleJustification=", <<"Right">>),
          Line("SignedNumber=", <<"TRUE">>),
          Line("CompressionType=", <<"None">>),
          Line("CompressedSampleSizeInBits=", <<"16">>),
          Line("CompressionByteOrder=", <<"LittleEndian">>),
          Line("PolynomialScalingCoeffs=", coeffs) >>

RECURSIVE SectionsText(_, _, _, _)
SectionsText(tags, bad, field, i) ==
    IF i > Len(tags) THEN <<>>
    ELSE SectionText(tags[i], IF i = bad THEN field ELSE GoodCoeffs)
         \o SectionsText(tags, bad, field, i + 1)

HeaderText(version, n, tags, bad, field, trailer) ==
    << Line("[DAQCompressedBinaryFile]", <<>>),
       Line("Version=", <<version>>),
       Line("HeaderSize=", <<"0000000400">>),
       Line("NumberOfTasks=", <<"1">>),
       Line("[Task0]", <<>>),
       Line("Name=", <<"_unnamedTask<0>">>),
       Line("NumberOfChannels=", <<NumStr(n)>>),
       Line("ReadBlockSize=", <<"2">>),
       Line("ReadBlockSizeInBytes=", <<"4">>) >>
    \o SectionsText(tags, bad, field, 1)
    \o (IF trailer THEN <<Line("[BinaryData]", <<>>), Line("Begin=Here", <<>>)>> ELSE <<>>)

Versions == {"1.0.0", "2.0.0"}
TagChoices == {"0", "1", "2", "none"}
CoeffFields == {GoodCoeffs, <<>>, <<";", "1", ";">>}

HeaderTexts ==
    UNION { { HeaderText(version, n, tags, bad, field, trailer) :
                version \in Versions, n \in (-1)..MaxSections,
                tags \in [1..m -> TagChoices], bad \in 0..m,
                field \in CoeffFields, trailer \in BOOLEAN } : m \in 0..MaxSections }

\* junk a word or a buffer may hold before it is first written
JunkWords == {0, 3}
JunkBuffs == {<<>>, <<"?">>}

\* the state on entry to ParseDataFileHeader: info is static, so all zero
InitParse ==
    /\ lines \in HeaderTexts
    /\ junk \in JunkWords
    /\ junkBuff \in JunkBuffs
    /\ ppc = "head" /\ fpos = 1 /\ stuck = FALSE
    /\ pinfo = [version |-> <<>>, headerSize |-> 0, taskName |-> <<>>,
                numberOfChannels |-> 0, readBlockSize |-> 0, readBlockSizeInBytes |-> 0,
                channelInfoChain |-> <<>>]
    /\ pi = 0
    /\ channelNum = junk
    /\ coeffBuff = junkBuff
    /\ buffs = [justificationBuff |-> junkBuff, signedBuff |-> junkBuff,
                compBuff |-> junkBuff, byteOrderBuff |-> junkBuff]
    /\ presult = "none"
    /\ DecoderIdle
    /\ WriterIdle
    /\ ExamplesIdle

NextParse ==
    \/ ParseHead /\ UNCHANGED <<dvars, wvars, evars>>
    \/ ParseOpenFails /\ UNCHANGED <<dvars, wvars, evars>>
    \/ ParseChannel /\ UNCHANGED <<dvars, wvars, evars>>
    \/ ParseNoMemory /\ UNCHANGED <<dvars, wvars, evars>>
    \/ ParseTail /\ UNCHANGED <<dvars, wvars, evars>>

SpecParse == InitParse /\ [][NextParse]_vars


(***************************************************************************)
(* What the text of the file says, read off the text itself.               *)
(***************************************************************************)
FileVersion == lines[2].v[1]
FileChannels == NumVal(lines[7].v[1])

\* the tags of the channel sections in file order, "none" for a section
\* that has no [Task0Channel<n>] line
RECURSIVE TagsFrom(_)
TagsFrom(p) ==
    IF p > Len(lines) THEN <<>>
    ELSE IF lines[p].k = "[Task0Channel" THEN <<lines[p].v[1]>> \o TagsFrom(p + 10)
    ELSE IF lines[p].k = "Name=" THEN <<"none">> \o TagsFrom(p + 9)
    ELSE <<>>

IsCoeffLine(l) == l.k = "PolynomialScalingCoeffs="

\* the PolynomialScalingCoeffs fields of the channel sections in file order
FileCoeffFields == SelectSeq(lines, IsCoeffLine)

\* C8: once ParseDataFileHeader has returned on a file whose Version is not
\* 1.0.0 or whose NumberOfChannels is below 1, it has returned NULL.
C8_BadVersionOrCountRefused ==
    (ppc = "done" /\ (FileVersion # "1.0.0" \/ FileChannels < 1)) => presult = "NULL"

\* a file with Version=2.0.0 whose fixed part was read to its end and refused
C8_Witness ==
    /\ ppc = "done" /\ presult = "NULL" /\ fpos = 10
    /\ FileVersion = "2.0.0" /\ FileChannels >= 1

\* C9: a manifest is returned only if, for every i below the channel count,
\* the i-th channel section of the file is tagged Task0Channel{i}.
C9_SectionTagsInOrder ==
    presult = "info" =>
        \A i \in 0..(pinfo.numberOfChannels - 1) :
            /\ i + 1 <= Len(TagsFrom(10))
            /\ TagsFrom(10)[i + 1] = NumStr(i)

\* C10: a manifest is returned only if every channel's PolynomialScalingCoeffs
\* field is non-empty and does not begin with a semicolon, and every channel
\* of the manifest has the coefficients of its own field, at least one.
C10_CoeffFieldsWellFormed ==
    presult = "info" =>
        \A i \in 1..pinfo.numberOfChannels :
            /\ i <= Len(FileCoeffFields)
            /\ FileCoeffFields[i].v # <<>>
            /\ FileCoeffFields[i].v[1] # ";"
            /\ pinfo.channelInfoChain[i].polynomialScalingCoeffChain
                   = CoeffChain(FileCoeffFields[i].v, 1)
            /\ pinfo.channelInfoChain[i].polynomialScalingCoeffChain # <<>>

(***************************************************************************)
(* The writer, ContAcqVoltage-ToFile-Compacted.c.                          *)
(*                                                                         *)
(* gHeader and the header on disk are sequences of lines [k, v] as above.  *)
(* A line holds Len(k) + the lengths of its items + 1 characters; a text   *)
(* stream of a platform with two-byte line ends writes one byte more.      *)
(***************************************************************************)
SampsPerChan == 1000
HeaderCapacity == 2000
NameCapacity == 1000
Placeholder == "0deadBEEF0"

Digit(d) ==
    CASE d = 0 -> "0" [] d = 1 -> "1" [] d = 2 -> "2" [] d = 3 -> "3" [] d = 4 -> "4"
      [] d = 5 -> "5" [] d = 6 -> "6" [] d = 7 -> "7" [] d = 8 -> "8" [] d = 9 -> "9"

DigitChars == {Digit(d) : d \in 0..9}

DigitVal(c) == CHOOSE d \in 0..9 : Digit(d) = c

\* sprintf "%d" and "%u" of n >= 0, one character per item
RECURSIVE Digits(_)
Digits(n) == IF n < 10 THEN <<Digit(n)>> ELSE Append(Digits(n \div 10), Digit(n % 10))

\* sprintf "%010d" of n >= 0, one character per item
Fmt010d(n) == [i \in 1..(10 - Len(Digits(n))) |-> "0"] \o Digits(n)

\* strtol on the items of a field: digits up to the first item that is none
RECURSIVE DecimalFrom(_, _, _)
DecimalFrom(v, i, acc) ==
    IF i > Len(v) \/ v[i] \notin DigitChars THEN acc
    ELSE DecimalFrom(v, i + 1, acc * 10 + DigitVal(v[i]))

DecimalValue(v) == DecimalFrom(v, 1, 0)

\* sprintf "%0.15lE" of the coefficients the task reports
CoeffText(x) ==
    CASE x = 0 -> "0.000000000000000E+00"
      [] x = 1 -> "1.000000000000000E+00"

RECURSIVE SumLen(_, _)
SumLen(v, i) == IF i > Len(v) THEN 0 ELSE Len(v[i]) + SumLen(v, i + 1)

LineLen(l) == Len(l.k) + SumLen(l.v, 1) + 1

\* strlen of a text
RECURSIVE MemLenFrom(_, _)
MemLenFrom(h, i) == IF i > Len(h) THEN 0 ELSE LineLen(h[i]) + MemLenFrom(h, i + 1)

MemLen(h) == MemLenFrom(h, 1)

\* the bytes a text takes in the file
DiskLen(h, crlf) == MemLen(h) + (IF crlf THEN Len(h) ELSE 0)

\* lines 280-312: set says whether gReadBlockSize was assigned
CalculateReadBlockSize(c, n, sampsPerChan) ==
    LET val == CASE c.compType = "LosslessPacking" -> c.resolution
                 [] c.compType = "LossyLSBRemoval" -> c.lossySize
                 [] OTHER -> c.rawSampSize
        rawDataWidth == c.rawDataWidth * 8
        hidden == rawDataWidth % c.rawSampSize # 0
                  /\ rawDataWidth \div c.rawSampSize # n
    IN  IF c.exceeds THEN [ok |-> FALSE, set |-> FALSE, size |-> 0]
        ELSE [ok |-> ~hidden, set |-> TRUE,
              size |-> ((val * rawDataWidth * sampsPerChan) \div c.rawSampSize) \div 8]

\* line 160
HeaderStart ==
    << Line("[DAQCompressedBinaryFile]", <<>>),
       Line("Version=", <<"1.0.0">>),
       Line("HeaderSize=", <<Placeholder>>),
       Line("NumberOfTasks=", <<"1">>) >>

\* lines 217-230: the text CreateDataFileTaskEntry adds
CreateDataFileTaskEntry(c, n, sampsToRead, blockSize) ==
    << Line("[Task0]", <<>>),
       Line("Name=", <<c.taskName>>),
       Line("NumberOfChannels=", Digits(n)),
       Line("ReadBlockSize=", Digits(sampsToRead)),
       Line("ReadBlockSizeInBytes=", Digits(blockSize)) >>

RECURSIVE CoeffItems(_, _)
CoeffItems(coeffs, i) ==
    IF i > Len(coeffs) THEN <<>>
    ELSE <<CoeffText(coeffs[i]), ";">> \o CoeffItems(coeffs, i + 1)

\* lines 232-278: the text CreateDataFileChannelEntry adds
CreateDataFileChannelEntry(c, idx) ==
    LET u32 == CASE c.compType = "LosslessPacking" -> c.resolution
                 [] c.compType = "LossyLSBRemoval" -> c.lossySize
                 [] OTHER -> c.rawSampSize
    IN  << Line("[Task0Channel", Digits(idx) \o <<"]">>),
           Line("Name=", <<c.channelNames[idx + 1]>>),
           Line("RawSampleResolution=", Digits(c.resolution)),
           Line("RawSampleSizeInBits=", Digits(c.rawSampSize)),
           Line("RawSampleJustification=", <<IF c.leftJustified THEN "Left" ELSE "Right">>),
           Line("SignedNumber=", <<IF c.minBelowZero THEN "TRUE" ELSE "FALSE">>),
           Line("CompressionType=", <<c.compType>>),
           Line("CompressedSampleSizeInBits=", Digits(u32)),
           Line("CompressionByteOrder=",
                <<IF c.rawSampSize = c.resolution \/ c.compType = "None"
                  THEN "LittleEndian" ELSE "BigEndian">>),
           Line("PolynomialScalingCoeffs=", CoeffItems(c.coeffs, 1)) >>

RECURSIVE ChannelEntries(_, _, _)
ChannelEntries(c, i, n) ==
    IF i >= n THEN <<>> ELSE CreateDataFileChannelEntry(c, i) \o ChannelEntries(c, i + 1, n)

\* line 165
HeaderEnd == << Line("[BinaryData]", <<>>), Line("Begin=Here", <<>>) >>

\* line 173: strstr(gHeader,"0deadBEEF0"), as <<line, item>>; <<0, 0>> for NULL
RECURSIVE Strstr(_, _, _)
Strstr(h, i, j) ==
    IF i > Len(h) THEN <<0, 0>>
    ELSE IF j > Len(h[i].v) THEN Strstr(h, i + 1, 1)
    ELSE IF h[i].v[j] = Placeholder THEN <<i, j>>
    ELSE Strstr(h, i, j + 1)

\* lines 173-177 without s[10] = ch: the text ends behind the digits
PatchHeaderSizeUnrestored(h, sz) ==
    LET at == Strstr(h, 1, 1)
    IN  IF at[1] = 0 THEN h
        ELSE SubSeq([h EXCEPT ![at[1]].v = SubSeq(@, 1, at[2] - 1) \o Fmt010d(sz)], 1, at[1])

\* lines 173-177: sprintf puts the ten digits and a 0 character in the place
\* of the text found and of the character behind it, and s[10] = ch puts that
\* character back
PatchHeaderSize(h, sz) ==
    LET at == Strstr(h, 1, 1)
    IN  IF at[1] = 0 THEN h
        ELSE [h EXCEPT ![at[1]].v =
                 SubSeq(@, 1, at[2] - 1) \o Fmt010d(sz) \o SubSeq(@, at[2] + 1, Len(@))]

\* line 179 on a stream opened "r+" and standing at offset 0: the text takes
\* the place of the start of the file
WriteAtStart(old, new) ==
    IF Len(new) >= Len(old) THEN new ELSE new \o SubSeq(old, Len(new) + 1, Len(old))

\* lines 204-209 with the block put before the data region, not behind it
WriteDataToDataFileAtStart(handle, region, block) ==
    IF handle # "NULL" THEN <<block>> \o region ELSE region

\* lines 204-209: the data region after WriteDataToDataFile on a stream opened "ab"
WriteDataToDataFile(handle, region, block) ==
    IF handle # "NULL" THEN Append(region, block) ELSE region

\* what gHeader holds when line 165 is done
BuiltHeader(c, n, blockSize) ==
    HeaderStart \o CreateDataFileTaskEntry(c, n, SampsPerChan, blockSize)
    \o ChannelEntries(c, 0, n) \o HeaderEnd

\* lines 107-112: the task is created and configured
MainConfigure ==
    /\ wpc = "configure"
    /\ \E created \in BOOLEAN, failed \in BOOLEAN :
          /\ taskHandle' = IF created THEN 1 ELSE 0
          /\ task' = IF created THEN "created" ELSE "none"
          /\ numChannels' = IF created /\ ~failed THEN Len(cfg.channelNames) ELSE numChannels
          /\ wpc' = IF created /\ ~failed THEN "malloc" ELSE "stop"
    /\ UNCHANGED <<cfg, wdata, gFileHandle, gHeader, gReadBlockSize, onCRLF, fileHeader,
                   fileData, acquired, hret, staleCalls,
                   filePath, fopens, registered, started, sampsArg>>
    /\ UNCHANGED cbpc

\* lines 114-117
MainMalloc ==
    /\ wpc = "malloc"
    /\ \E got \in BOOLEAN :
          /\ wdata' = IF got THEN "alloc" ELSE "NULL"
          /\ wpc' = IF got THEN "header" ELSE "stop"
    /\ UNCHANGED <<cfg, taskHandle, task, numChannels, gFileHandle, gHeader, gReadBlockSize,
                   onCRLF, fileHeader, fileData, acquired, hret, staleCalls,
                   filePath, fopens, registered, started, sampsArg>>
    /\ UNCHANGED cbpc

\* the paths CreateDataFileHeader is called with: the one of line 119, an
\* empty one, and none
FilePaths == {"C:\\stream.cfg", "", "NULL"}

\* line 158: the path can be handed to fopen
UsablePath(path) == path # "NULL" /\ path # ""

\* lines 158, 169 and 182: the fopen calls CreateDataFileHeader makes, in order;
\* entered says that the call has come to line 166
FopenCalls(path, openW, entered, openRW, openAB) ==
    IF ~UsablePath(path) THEN <<>>
    ELSE <<[mode |-> "w", ok |-> openW]>>
         \o (IF openW /\ entered THEN <<[mode |-> "r+", ok |-> openRW]>> ELSE <<>>)
         \o (IF openW /\ entered /\ openRW THEN <<[mode |-> "ab", ok |-> openAB]>> ELSE <<>>)

\* lines 119-120 without the test of what CreateDataFileHeader returned
AfterHeaderUntested(ret) == "register"

\* lines 119-120: where main goes on
AfterHeader(ret) == IF ret = "TRUE" THEN "register" ELSE "stop"

\* lines 119-120 with CreateDataFileHeader, lines 153-189, and FindOutFileSize,
\* lines 192-202.  Writing behind the end of gHeader is undefined: the run is
\* ended, or the statics next to gHeader hold characters of the header.
MainCreateHeader ==
    /\ wpc = "header"
    /\ LET calc == CalculateReadBlockSize(cfg, numChannels, SampsPerChan)
           blockSize == IF calc.set THEN calc.size ELSE gReadBlockSize
           built == BuiltHeader(cfg, numChannels, blockSize)
           onDisk == DiskLen(built, onCRLF)
           overflow == MemLen(built) >= HeaderCapacity
           overwritten == MemLen(built)
       IN  \E path \in FilePaths, openW \in BOOLEAN, measured \in BOOLEAN,
              openRW \in BOOLEAN, openAB \in BOOLEAN,
              behind \in {"ended", "overwritten", "spared"} :
              /\ filePath' = path
              /\ fopens' = FopenCalls(path, openW, calc.ok /\ ~(overflow /\ behind = "ended"),
                                      openRW, openAB)
              /\ IF ~UsablePath(path)
                 THEN /\ hret' = "FALSE" /\ wpc' = AfterHeader("FALSE")
                      /\ UNCHANGED <<gFileHandle, gHeader, gReadBlockSize, fileHeader, wdata>>
                 ELSE IF ~openW
                 THEN /\ hret' = "FALSE" /\ wpc' = AfterHeader("FALSE")
                      /\ gFileHandle' = "NULL"
                      /\ UNCHANGED <<gHeader, gReadBlockSize, fileHeader, wdata>>
                 ELSE IF ~calc.ok
                 THEN /\ hret' = "FALSE" /\ wpc' = AfterHeader("FALSE")
                      /\ gFileHandle' = "w"
                      /\ gHeader' = HeaderStart
                             \o CreateDataFileTaskEntry(cfg, numChannels, SampsPerChan, blockSize)
                      /\ gReadBlockSize' = blockSize
                      /\ fileHeader' = <<>>
                      /\ UNCHANGED wdata
                 ELSE IF overflow /\ behind = "ended"
                 THEN /\ wpc' = "crashed"
                      /\ gFileHandle' = "w"
                      /\ gHeader' = built
                      /\ gReadBlockSize' = blockSize
                      /\ fileHeader' = <<>>
                      /\ UNCHANGED <<hret, wdata>>
                 ELSE /\ gReadBlockSize' = IF overflow /\ behind = "overwritten"
                                           THEN overwritten ELSE blockSize
                      /\ wdata' = IF overflow /\ behind = "overwritten" THEN "wild" ELSE wdata
                      /\ IF ~openRW
                         THEN /\ hret' = "FALSE" /\ wpc' = AfterHeader("FALSE")
                              /\ gFileHandle' = "NULL"
                              /\ gHeader' = built
                              /\ fileHeader' = built
                         ELSE /\ gHeader' = PatchHeaderSize(built, IF measured THEN onDisk ELSE 0)
                              /\ fileHeader' = WriteAtStart(built, gHeader')
                              /\ IF openAB
                                 THEN /\ hret' = "TRUE" /\ wpc' = AfterHeader("TRUE")
                                      /\ gFileHandle' = "ab"
                                 ELSE /\ hret' = "FALSE" /\ wpc' = AfterHeader("FALSE")
                                      /\ gFileHandle' = "NULL"
    /\ UNCHANGED <<cfg, taskHandle, task, numChannels, onCRLF, fileData, acquired, staleCalls,
                   registered, started, sampsArg>>
    /\ UNCHANGED cbpc

\* lines 122-128: the callbacks are registered and the task is started
MainStart ==
    /\ wpc = "register"
    /\ \E failedAt \in {122, 123, 128, 0} :
          /\ registered' = CASE failedAt = 122 -> registered
                              [] failedAt = 123 -> registered \cup {"EveryNCallback"}
                              [] OTHER -> registered \cup {"EveryNCallback", "DoneCallback"}
          /\ started' = (failedAt = 0)
          /\ task' = IF failedAt # 0 THEN task ELSE "running"
          /\ wpc' = IF failedAt # 0 THEN "stop" ELSE "wait"
    /\ UNCHANGED <<cfg, taskHandle, numChannels, wdata, gFileHandle, gHeader, gReadBlockSize,
                   onCRLF, fileHeader, fileData, acquired, hret, staleCalls,
                   filePath, fopens, sampsArg>>
    /\ UNCHANGED cbpc

\* lines 130-131: getchar returns
MainEnter ==
    /\ wpc = "wait"
    /\ wpc' = "stop"
    /\ UNCHANGED <<cfg, taskHandle, task, numChannels, wdata, gFileHandle, gHeader,
                   gReadBlockSize, onCRLF, fileHeader, fileData, acquired, hret, staleCalls,
                   filePath, fopens, registered, started, sampsArg>>
    /\ UNCHANGED cbpc

\* lines 136-140: DAQmxStopTask
MainStop ==
    /\ wpc = "stop"
    /\ IF taskHandle = 0
       THEN wpc' = "free" /\ UNCHANGED <<task, staleCalls>>
       ELSE /\ wpc' = "clear"
            /\ task' = IF task = "cleared" THEN task ELSE "stopped"
            /\ staleCalls' = IF task = "cleared" THEN staleCalls + 1 ELSE staleCalls
    /\ UNCHANGED <<cfg, taskHandle, numChannels, wdata, gFileHandle, gHeader, gReadBlockSize,
                   onCRLF, fileHeader, fileData, acquired, hret,
                   filePath, fopens, registered, started, sampsArg>>
    /\ UNCHANGED cbpc

\* line 141: DAQmxClearTask
MainClear ==
    /\ wpc = "clear"
    /\ wpc' = "close"
    /\ task' = "cleared"
    /\ staleCalls' = IF task = "cleared" THEN staleCalls + 1 ELSE staleCalls
    /\ UNCHANGED <<cfg, taskHandle, numChannels, wdata, gFileHandle, gHeader, gReadBlockSize,
                   onCRLF, fileHeader, fileData, acquired, hret,
                   filePath, fopens, registered, started, sampsArg>>
    /\ UNCHANGED cbpc

\* line 142 with CloseDataFile, lines 211-215
MainClose ==
    /\ wpc = "close"
    /\ wpc' = "free"
    /\ gFileHandle' = IF gFileHandle # "NULL" THEN "closed" ELSE gFileHandle
    /\ UNCHANGED <<cfg, taskHandle, task, numChannels, wdata, gHeader, gReadBlockSize,
                   onCRLF, fileHeader, fileData, acquired, hret, staleCalls,
                   filePath, fopens, registered, started, sampsArg>>
    /\ UNCHANGED cbpc

\* lines 144-150
MainFree ==
    /\ wpc = "free"
    /\ wpc' = "done"
    /\ wdata' = IF wdata # "NULL" THEN "freed" ELSE wdata
    /\ UNCHANGED <<cfg, taskHandle, task, numChannels, gFileHandle, gHeader, gReadBlockSize,
                   onCRLF, fileHeader, fileData, acquired, hret, staleCalls,
                   filePath, fopens, registered, started, sampsArg>>
    /\ UNCHANGED cbpc

\* lines 314-324, called by DAQmx on its own thread while the task runs.
\* DAQmxReadRaw fails, or reads samples into data, or reads none; reading
\* through a data pointer that holds characters of the header ends the run.
EveryNCallback ==
    /\ task = "running" /\ wpc \in {"wait", "stop"} /\ cbpc = "idle"
    /\ \E outcome \in {"failed", "read", "nothing"} :
          IF wdata = "wild"
          THEN /\ wpc' = "crashed"
               /\ UNCHANGED <<cbpc, acquired>>
          ELSE CASE outcome = "failed" ->
                      /\ cbpc' = "error"
                      /\ UNCHANGED <<wpc, acquired>>
                 [] outcome = "read" ->
                      /\ Len(acquired) < MaxBlocks
                      /\ acquired' = Append(acquired, [id |-> Len(acquired) + 1,
                                                       bytes |-> gReadBlockSize])
                      /\ cbpc' = "write"
                      /\ UNCHANGED wpc
                 [] outcome = "nothing" ->
                      UNCHANGED <<wpc, cbpc, acquired>>
    /\ UNCHANGED <<cfg, taskHandle, task, numChannels, wdata, gFileHandle, gHeader,
                   gReadBlockSize, onCRLF, fileHeader, fileData, hret, staleCalls,
                   filePath, fopens, registered, started, sampsArg>>

\* lines 325-328: the block read is handed to WriteDataToDataFile.  Nothing
\* makes main wait for the callback, and CloseDataFile leaves gFileHandle as
\* it is; fwrite on a stream that fclose has closed is undefined: the block
\* is lost or the run is ended.
EveryNWrite ==
    /\ cbpc = "write" /\ wpc # "crashed"
    /\ cbpc' = "idle"
    /\ IF gFileHandle = "closed"
       THEN \E behind \in {"lost", "ended"} :
               /\ wpc' = IF behind = "ended" THEN "crashed" ELSE wpc
               /\ UNCHANGED fileData
       ELSE /\ fileData' = WriteDataToDataFile(gFileHandle, fileData, acquired[Len(acquired)])
            /\ UNCHANGED wpc
    /\ UNCHANGED <<cfg, taskHandle, task, numChannels, wdata, gFileHandle, gHeader,
                   gReadBlockSize, onCRLF, fileHeader, acquired, hret, staleCalls,
                   filePath, fopens, registered, started, sampsArg>>

\* lines 330-340: DAQmxStopTask and DAQmxClearTask on the handle the callback
\* was given
EveryNError ==
    /\ cbpc = "error" /\ wpc # "crashed"
    /\ cbpc' = "idle"
    /\ staleCalls' = IF task = "cleared" THEN staleCalls + 2 ELSE staleCalls
    /\ task' = "cleared"
    /\ UNCHANGED <<wpc, cfg, taskHandle, numChannels, wdata, gFileHandle, gHeader,
                   gReadBlockSize, onCRLF, fileHeader, fileData, acquired, hret,
                   filePath, fopens, registered, started, sampsArg>>

\* lines 343-358, called by DAQmx when the task is done
DoneCallback ==
    /\ task = "running" /\ wpc \in {"wait", "stop"}
    /\ \E failed \in BOOLEAN :
          task' = IF failed THEN "cleared" ELSE "done"
    /\ UNCHANGED <<wpc, cfg, taskHandle, numChannels, wdata, gFileHandle, gHeader,
                   gReadBlockSize, onCRLF, fileHeader, fileData, acquired, hret, staleCalls,
                   filePath, fopens, registered, started, sampsArg>>
    /\ UNCHANGED cbpc

(***************************************************************************)
(* The tasks the writer is run on.                                         *)
(***************************************************************************)
RECURSIVE Repeat(_, _)
Repeat(str, n) ==
    IF n = 0 THEN ""
    ELSE IF n % 2 = 0 THEN Repeat(str, n \div 2) \o Repeat(str, n \div 2)
    ELSE str \o Repeat(str, n - 1)

\* a name as long as DAQmxGetTaskName and DAQmxGetNthTaskChannel can return
LongName == Repeat("n", NameCapacity - 1)

TaskNames == {"_unnamedTask<0>", Placeholder, LongName}
ChannelNames == {"Dev1/ai0", LongName}

TaskFormats ==
    { [compType |-> "None", rawSampSize |-> 16, resolution |-> 16, lossySize |-> 16],
      [compType |-> "None", rawSampSize |-> 16, resolution |-> 12, lossySize |-> 12],
      [compType |-> "LosslessPacking", rawSampSize |-> 16, resolution |-> 12, lossySize |-> 12],
      [compType |-> "LossyLSBRemoval", rawSampSize |-> 16, resolution |-> 16, lossySize |-> 12] }

TaskAnswers(taskName, names, fmt, width, coeffs) ==
    [taskName |-> taskName, channelNames |-> names,
     compType |-> fmt.compType, rawSampSize |-> fmt.rawSampSize,
     resolution |-> fmt.resolution, lossySize |-> fmt.lossySize,
     leftJustified |-> FALSE, minBelowZero |-> TRUE,
     rawDataWidth |-> width, exceeds |-> (width = 0), coeffs |-> coeffs]

\* the bytes of one scan: those of the channels, or one byte, one sample or
\* one sample and a byte more; width 0 stands for the queries answering
\* CompressedSampSizeExceedsResolution
TaskConfigs ==
    UNION { { TaskAnswers(taskName, names, fmt, width, coeffs) :
                taskName \in TaskNames, names \in {[i \in 1..n |-> nm] : nm \in ChannelNames},
                fmt \in TaskFormats, width \in {0, 2 * n, 2 * n + 1, 2 * n + 2, 2 * n + 3},
                coeffs \in {<<>>, <<0, 1>>} } : n \in 1..MaxTaskChannels }

InitWriter ==
    /\ cfg \in TaskConfigs
    /\ onCRLF \in BOOLEAN
    /\ wpc = "configure" /\ taskHandle = 0 /\ task = "none" /\ numChannels = 0
    /\ wdata = "NULL" /\ gFileHandle = "NULL" /\ gHeader = <<>> /\ gReadBlockSize = 0
    /\ fileHeader = <<>> /\ fileData = <<>> /\ acquired = <<>>
    /\ hret = "none" /\ staleCalls = 0 /\ cbpc = "idle"
    /\ filePath = "NULL" /\ fopens = <<>> /\ registered = {} /\ started = FALSE
    /\ sampsArg = SampsPerChan
    /\ DecoderIdle
    /\ ParserIdle
    /\ ExamplesIdle

NextWriter ==
    \/ MainConfigure /\ UNCHANGED <<dvars, pvars, evars>>
    \/ MainMalloc /\ UNCHANGED <<dvars, pvars, evars>>
    \/ MainCreateHeader /\ UNCHANGED <<dvars, pvars, evars>>
    \/ MainStart /\ UNCHANGED <<dvars, pvars, evars>>
    \/ MainEnter /\ UNCHANGED <<dvars, pvars, evars>>
    \/ MainStop /\ UNCHANGED <<dvars, pvars, evars>>
    \/ MainClear /\ UNCHANGED <<dvars, pvars, evars>>
    \/ MainClose /\ UNCHANGED <<dvars, pvars, evars>>
    \/ MainFree /\ UNCHANGED <<dvars, pvars, evars>>
    \/ EveryNCallback /\ UNCHANGED <<dvars, pvars, evars>>
    \/ EveryNWrite /\ UNCHANGED <<dvars, pvars, evars>>
    \/ EveryNError /\ UNCHANGED <<dvars, pvars, evars>>
    \/ DoneCallback /\ UNCHANGED <<dvars, pvars, evars>>

SpecWriter == InitWriter /\ [][NextWriter]_vars

(***************************************************************************)
(* CreateDataFileTaskEntry and CalculateReadBlockSize as functions of      *)
(* their parameters: lines 160-165 of CreateDataFileHeader for every       *)
(* sampsPerChan, not only the 1000 of line 119.                            *)
(***************************************************************************)
MaxSamps == 8

\* the values of the parameter sampsPerChan
SampleCounts == 1..MaxSamps \cup {SampsPerChan}

\* the tasks whose names leave room in gHeader
EntryConfigs == {c \in TaskConfigs : c.taskName # LongName /\ c.channelNames[1] # LongName}

\* line 160 is done
InitTaskEntry ==
    /\ cfg \in EntryConfigs
    /\ sampsArg \in SampleCounts
    /\ numChannels = Len(cfg.channelNames)
    /\ wpc = "entry" /\ taskHandle = 1 /\ task = "created"
    /\ wdata = "alloc" /\ gFileHandle = "w" /\ gHeader = HeaderStart /\ gReadBlockSize = 0
    /\ onCRLF = FALSE /\ fileHeader = <<>> /\ fileData = <<>> /\ acquired = <<>>
    /\ hret = "none" /\ staleCalls = 0 /\ cbpc = "idle"
    /\ filePath = "C:\\stream.cfg" /\ fopens = <<[mode |-> "w", ok |-> TRUE]>>
    /\ registered = {} /\ started = FALSE
    /\ DecoderIdle
    /\ ParserIdle
    /\ ExamplesIdle

\* lines 161-162 with CreateDataFileTaskEntry, lines 217-230, and
\* CalculateReadBlockSize, lines 280-312
HeaderTaskEntry ==
    /\ wpc = "entry"
    /\ \E calc \in {CalculateReadBlockSize(cfg, numChannels, sampsArg)} :
          /\ gReadBlockSize' = IF calc.set THEN calc.size ELSE gReadBlockSize
          /\ gHeader' = gHeader \o CreateDataFileTaskEntry(cfg, numChannels, sampsArg,
                                                           gReadBlockSize')
          /\ hret' = IF calc.ok THEN hret ELSE "FALSE"
          /\ wpc' = IF calc.ok THEN "channels" ELSE "returned"
    /\ UNCHANGED <<cfg, taskHandle, task, numChannels, wdata, gFileHandle, onCRLF, fileHeader,
                   fileData, acquired, staleCalls, cbpc, filePath, fopens, registered, started,
                   sampsArg>>

\* lines 163-165
HeaderChannelEntries ==
    /\ wpc = "channels"
    /\ gHeader' = gHeader \o ChannelEntries(cfg, 0, numChannels) \o HeaderEnd
    /\ wpc' = "built"
    /\ UNCHANGED <<cfg, taskHandle, task, numChannels, wdata, gFileHandle, gReadBlockSize,
                   onCRLF, fileHeader, fileData, acquired, hret, staleCalls, cbpc, filePath,
                   fopens, registered, started, sampsArg>>

NextTaskEntry ==
    \/ HeaderTaskEntry /\ UNCHANGED <<dvars, pvars, evars>>
    \/ HeaderChannelEntries /\ UNCHANGED <<dvars, pvars, evars>>

SpecTaskEntry == InitTaskEntry /\ [][NextTaskEntry]_vars

\* the value of the HeaderSize field of the file
FileHeaderSize == DecimalValue(fileHeader[3].v)

\* the offset of the first byte behind the line Begin=Here
DataOffset == DiskLen(fileHeader, onCRLF)

\* the header on disk is whole and its HeaderSize field holds ten digits
HeaderWrittenAndPatched ==
    /\ Len(fileHeader) = 11 + 10 * numChannels
    /\ fileHeader[Len(fileHeader)].k = "Begin=Here"
    /\ Len(fileHeader[3].v) = 10
    /\ \A i \in 1..10 : fileHeader[3].v[i] \in DigitChars
    /\ fileHeader = gHeader

\* C1: once CreateDataFileHeader has returned TRUE, the decimal value of the
\* HeaderSize field of the file is the offset of the first byte behind the
\* line Begin=Here, where the data region begins.
C1_HeaderSizeIsDataOffset ==
    hret = "TRUE" => FileHeaderSize = DataOffset

\* C2: a block is in the file only if CreateDataFileHeader has returned with
\* the header whole and patched, the header is as it was left then, and the
\* data region is the blocks the callbacks have read, in callback order,
\* whenever no callback stands between its read and its write.
C2_BlocksAppendedInOrder ==
    /\ fileData # <<>> => (hret = "TRUE" /\ HeaderWrittenAndPatched)
    /\ hret = "TRUE" => HeaderWrittenAndPatched
    /\ cbpc # "write" => fileData = acquired

\* three callbacks have read samples and the file holds their three blocks
C2_Witness ==
    /\ Len(acquired) = 3 /\ cbpc = "idle"
    /\ fileData = acquired
    /\ \A i \in 1..3 : fileData[i].id = i
    /\ hret = "TRUE"

\* the ten lines of channel i, counted from 0, in a header text
ChannelRecord(h, i) == SubSeq(h, 10 + 10 * i, 19 + 10 * i)

\* the number a field of a record states
FieldValue(rec, key) ==
    DecimalValue(rec[CHOOSE j \in 1..Len(rec) : rec[j].k = key].v)

\* C11: every channel record in the file states a CompressedSampleSizeInBits
\* that is at most its RawSampleResolution, and a RawSampleResolution that is
\* at most its RawSampleSizeInBits, whatever the compression type.
C11_ChannelSizesOrdered ==
    \A i \in 0..(numChannels - 1) :
        Len(fileHeader) >= 19 + 10 * i =>
            LET rec == ChannelRecord(fileHeader, i)
            IN  /\ FieldValue(rec, "CompressedSampleSizeInBits=")
                       <= FieldValue(rec, "RawSampleResolution=")
                /\ FieldValue(rec, "RawSampleResolution=")
                       <= FieldValue(rec, "RawSampleSizeInBits=")

\* a fopen of CreateDataFileHeader has failed
SomeFopenFailed == \E i \in 1..Len(fopens) : ~fopens[i].ok

HeaderPatched == Len(fopens) >= 2 /\ fopens[2].ok

\* gHeader as line 165 left it, before the file was closed and measured
HeaderBeforePatch ==
    BuiltHeader(cfg, numChannels, CalculateReadBlockSize(cfg, numChannels, SampsPerChan).size)

\* gHeader and the file hold the header as it was before the patch, but for
\* ten digits in the place of the placeholder
PatchFrame ==
    LET before == HeaderBeforePatch
    IN  /\ Len(gHeader) = Len(before)
        /\ LineLen(gHeader[3]) = LineLen(before[3])
        /\ [gHeader EXCEPT ![3] = before[3]] = before
        /\ gHeader[3].k = "HeaderSize="
        /\ Len(gHeader[3].v) = Len(Placeholder)
        /\ \A i \in 1..Len(gHeader[3].v) : gHeader[3].v[i] \in DigitChars
        /\ gHeader[3].v = Fmt010d(DecimalValue(gHeader[3].v))
        /\ fileHeader = gHeader

\* C20: the call of CreateDataFileHeader that patches the HeaderSize field
\* puts ten decimal digits, padded with zeros, in the place of the ten
\* characters of the placeholder; the header has as many lines and characters
\* as before and every other line, the one that follows the field included,
\* is as it was, in gHeader and in the file.
C20_PatchKeepsTheRest ==
    [][(wpc = "header" /\ HeaderPatched') => PatchFrame']_vars

\* the header of a task named like the placeholder has been patched with the
\* size measured: the field holds the size and the name still holds the text
C20_Witness ==
    /\ HeaderPatched /\ hret = "TRUE"
    /\ cfg.taskName = Placeholder
    /\ gHeader[6] = Line("Name=", <<Placeholder>>)
    /\ DecimalValue(gHeader[3].v) = DiskLen(gHeader, onCRLF)
    /\ gHeader[4] = Line("NumberOfTasks=", <<"1">>)

\* C23: whenever the samples per scan implied by the raw data width (its
\* bits divided by the raw sample size) differ from the task's channel
\* count, header creation fails.
C23_HiddenChannelsFailHeader ==
    (/\ hret # "none"
     /\ ~cfg.exceeds
     /\ (cfg.rawDataWidth * 8) \div cfg.rawSampSize # numChannels)
        => hret = "FALSE"

\* C25: DAQmxStopTask and DAQmxClearTask are never called with the handle of
\* a task that has been cleared, however an error handled in a callback and
\* main's cleanup interleave.
C25_NoCallOnClearedTask ==
    staleCalls = 0

\* C26: no callback writes to the data file once CloseDataFile has closed
\* it, and no callback reads into the sample buffer once main has freed it.
C26_NoCallbackAfterTeardown ==
    [][/\ ~(cbpc = "write" /\ cbpc' = "idle" /\ gFileHandle = "closed")
       /\ ~(cbpc = "idle" /\ cbpc' = "write" /\ wdata = "freed")]_vars

RECURSIVE RegionLen(_, _)
RegionLen(region, i) ==
    IF i > Len(region) THEN 0 ELSE region[i].bytes + RegionLen(region, i + 1)

\* the length of the file: the header text and the blocks behind it
FileLength == DiskLen(fileHeader, onCRLF) + RegionLen(fileData, 1)

\* C29: at every point of an acquisition run the length of the file is the
\* HeaderSize the file states plus a whole multiple of the
\* ReadBlockSizeInBytes it states: every block appended has that many bytes
\* and nothing else is appended.
C29_LengthIsHeaderPlusWholeBlocks ==
    started =>
        \E k \in 0..MaxBlocks :
            FileLength = FileHeaderSize + k * FieldValue(fileHeader, "ReadBlockSizeInBytes=")

(***************************************************************************)
(* The Synchronization and Events examples.  An example is a record:       *)
(*   create    its tasks, in the order main creates them                   *)
(*   start     its tasks, in the order main starts them                    *)
(*   cleanup   its tasks, in the order the code behind Error clears them   *)
(*   waits     pairs <<t, u>>: t takes its clock or start trigger from u   *)
(*   everyN    the task the Every N Samples or signal event is on          *)
(*   done      the tasks the Done event is registered on                   *)
(*   always    the code behind Error clears the tasks whatever error holds *)
(*   stops     main calls DAQmxStopTask when getchar has returned          *)
(*   reads     main reads the samples itself                               *)
(*   zeroes    clearing a task in main sets its handle to 0                *)
(***************************************************************************)
ContAIReadDigChan ==
    [name |-> "ContAI-ReadDigChan",
     create |-> <<"AItaskHandle", "DItaskHandle">>,
     start |-> <<"DItaskHandle", "AItaskHandle">>,
     cleanup |-> <<"AItaskHandle", "DItaskHandle">>,
     waits |-> {<<"DItaskHandle", "AItaskHandle">>},
     everyN |-> "AItaskHandle", done |-> {"AItaskHandle"},
     doneCleans |-> {"DItaskHandle"},
     always |-> TRUE, stops |-> FALSE, reads |-> FALSE, zeroes |-> TRUE]

FiniteAI ==
    [name |-> "FiniteAI",
     create |-> <<"masterTaskHandle", "slaveTaskHandle">>,
     start |-> <<"slaveTaskHandle", "masterTaskHandle">>,
     cleanup |-> <<"masterTaskHandle", "slaveTaskHandle">>,
     waits |-> {<<"slaveTaskHandle", "masterTaskHandle">>},
     everyN |-> "none", done |-> {}, doneCleans |-> {},
     always |-> TRUE, stops |-> FALSE, reads |-> TRUE, zeroes |-> FALSE]

DSASharedTimebaseAndTrig ==
    [name |-> "DSASharedTimebaseAndTrig-AIandAO",
     create |-> <<"gMasterAItaskHandle", "gMasterAOtaskHandle",
                  "gSlaveAItaskHandle", "gSlaveAOtaskHandle">>,
     start |-> <<"gMasterAOtaskHandle", "gSlaveAItaskHandle",
                 "gSlaveAOtaskHandle", "gMasterAItaskHandle">>,
     cleanup |-> <<"gMasterAItaskHandle", "gMasterAOtaskHandle",
                   "gSlaveAItaskHandle", "gSlaveAOtaskHandle">>,
     waits |-> {<<"gMasterAOtaskHandle", "gMasterAItaskHandle">>,
                <<"gSlaveAItaskHandle", "gMasterAItaskHandle">>,
                <<"gSlaveAOtaskHandle", "gMasterAItaskHandle">>},
     everyN |-> "gMasterAItaskHandle",
     done |-> {"gMasterAItaskHandle", "gMasterAOtaskHandle",
               "gSlaveAItaskHandle", "gSlaveAOtaskHandle"},
     doneCleans |-> {"gMasterAItaskHandle", "gMasterAOtaskHandle",
                     "gSlaveAItaskHandle", "gSlaveAOtaskHandle"},
     always |-> TRUE, stops |-> FALSE, reads |-> FALSE, zeroes |-> TRUE]

EveryNSamplesEvent ==
    [name |-> "ContAcq-IntClk-EveryNSamplesEvent",
     create |-> <<"taskHandle">>, start |-> <<"taskHandle">>, cleanup |-> <<"taskHandle">>,
     waits |-> {}, everyN |-> "taskHandle", done |-> {}, doneCleans |-> {},
     always |-> FALSE, stops |-> TRUE, reads |-> FALSE, zeroes |-> TRUE]

ChangeDetectionEvent ==
    [name |-> "ReadDigChan-ChangeDetectionEvent",
     create |-> <<"taskHandle">>, start |-> <<"taskHandle">>, cleanup |-> <<"taskHandle">>,
     waits |-> {}, everyN |-> "taskHandle", done |-> {}, doneCleans |-> {},
     always |-> FALSE, stops |-> FALSE, reads |-> FALSE, zeroes |-> TRUE]

SyncExamples == {ContAIReadDigChan, FiniteAI, DSASharedTimebaseAndTrig}
EventExamples == {EveryNSamplesEvent, ChangeDetectionEvent}

Range(f) == {f[i] : i \in DOMAIN f}

\* DAQmxErrChk: the error is kept and main goes to Error
Failed(e) == e < 0

\* the DAQmxStartTask calls of main with the tasks in the order of their creation
StartSequenceAsCreated(p) == p.create

\* the DAQmxStartTask calls of main, in order
StartSequence(p) == p.start

\* DAQmxStopTask and DAQmxClearTask on every task of set whose handle is not 0
ClearAll(set, h, t, zero) ==
    [handles |-> [x \in DOMAIN h |-> IF x \in set /\ h[x] # 0 /\ zero THEN 0 ELSE h[x]],
     tasks |-> [x \in DOMAIN t |-> IF x \in set /\ h[x] # 0 THEN "cleared" ELSE t[x]]]

\* DAQmxCreateTask and the calls that configure the task: either may fail
ExampleCreate ==
    /\ mpc = "create"
    /\ LET t == program.create[mi]
       IN  \E outcome \in {"no task", "not configured", "ok"} :
              /\ handles' = IF outcome = "no task" THEN handles ELSE [handles EXCEPT ![t] = 1]
              /\ tasks' = IF outcome = "no task" THEN tasks ELSE [tasks EXCEPT ![t] = "created"]
              /\ error' = IF outcome = "ok" THEN error ELSE -1
              /\ mpc' = IF outcome # "ok" THEN "Error"
                        ELSE IF mi = Len(program.create) THEN "configure" ELSE mpc
              /\ mi' = IF outcome = "ok" /\ mi < Len(program.create) THEN mi + 1 ELSE 1
    /\ UNCHANGED <<program, startOrder, startFailed, events>>

\* the calls between the last task's timing and the first DAQmxStartTask:
\* clocks and triggers are shared and the callbacks are registered
ExampleConfigure ==
    /\ mpc = "configure"
    /\ \E failed \in BOOLEAN :
          /\ error' = IF failed THEN -1 ELSE error
          /\ mpc' = IF failed THEN "Error" ELSE "start"
    /\ mi' = 1
    /\ UNCHANGED <<program, handles, tasks, startOrder, startFailed, events>>

\* one DAQmxErrChk (DAQmxStartTask(...)); a handle that is 0 and a task that
\* is cleared cannot be started
ExampleStart ==
    /\ mpc = "start"
    /\ LET t == StartSequence(program)[mi]
       IN  \E answer \in BOOLEAN :
              LET ok == answer /\ handles[t] # 0 /\ tasks[t] # "cleared"
              IN  /\ tasks' = IF ok THEN [tasks EXCEPT ![t] = "running"] ELSE tasks
                  /\ startOrder' = IF ok THEN Append(startOrder, t) ELSE startOrder
                  /\ startFailed' = IF ok THEN startFailed ELSE startFailed \cup {t}
                  /\ error' = IF ok THEN error ELSE -1
                  /\ mpc' = IF ~ok THEN "Error"
                            ELSE IF mi = Len(program.start) THEN "wait" ELSE mpc
                  /\ mi' = IF ok /\ mi < Len(program.start) THEN mi + 1 ELSE 1
    /\ UNCHANGED <<program, handles, events>>

\* getchar returns, or main has read the samples of the finite acquisition
ExampleWait ==
    /\ mpc = "wait"
    /\ \E failed \in BOOLEAN :
          /\ failed => program.reads
          /\ error' = IF failed THEN -1 ELSE error
          /\ mpc' = IF program.stops /\ ~failed THEN "stop" ELSE "Error"
    /\ UNCHANGED <<program, mi, handles, tasks, startOrder, startFailed, events>>

\* DAQmxErrChk (DAQmxStopTask(taskHandle)) of the Every N Samples example
ExampleStop ==
    /\ mpc = "stop"
    /\ LET t == program.cleanup[1]
       IN  \E answer \in BOOLEAN :
              LET ok == answer /\ handles[t] # 0 /\ tasks[t] # "cleared"
              IN  /\ tasks' = IF ok THEN [tasks EXCEPT ![t] = "stopped"] ELSE tasks
                  /\ error' = IF ok THEN error ELSE -1
    /\ mpc' = "Error"
    /\ UNCHANGED <<program, mi, handles, startOrder, startFailed, events>>

\* the label Error: the tasks are cleared always, or if error holds a failure
ExampleError ==
    /\ mpc = "Error"
    /\ mpc' = IF program.always \/ Failed(error) THEN "cleanup" ELSE "exit"
    /\ mi' = 1
    /\ UNCHANGED <<program, error, handles, tasks, startOrder, startFailed, events>>

\* one if( handle ) { DAQmxStopTask; DAQmxClearTask; } behind Error, or Cleanup()
ExampleCleanup ==
    /\ mpc = "cleanup"
    /\ LET after == ClearAll({program.cleanup[mi]}, handles, tasks, program.zeroes)
       IN  handles' = after.handles /\ tasks' = after.tasks
    /\ mpc' = IF mi = Len(program.cleanup) THEN "exit" ELSE mpc
    /\ mi' = IF mi = Len(program.cleanup) THEN mi ELSE mi + 1
    /\ UNCHANGED <<program, error, startOrder, startFailed, events>>

\* the Every N Samples or signal callback, called while its task runs: the
\* read fails and every task is cleared, or the samples are printed
ExampleEveryNCallback ==
    /\ program.everyN # "none" /\ mpc # "exit"
    /\ tasks[program.everyN] = "running"
    /\ events < MaxEvents
    /\ events' = events + 1
    /\ \E failed \in BOOLEAN :
          LET after == IF failed THEN ClearAll(Range(program.cleanup), handles, tasks, TRUE)
                       ELSE [handles |-> handles, tasks |-> tasks]
          IN  handles' = after.handles /\ tasks' = after.tasks
    /\ UNCHANGED <<program, mpc, mi, error, startOrder, startFailed>>

\* the Done callback of a running task: on a failed status the task is
\* cleared, then the tasks whose handles are not 0
ExampleDoneCallback ==
    /\ mpc # "exit"
    /\ events < MaxEvents
    /\ events' = events + 1
    /\ \E t \in program.done, failed \in BOOLEAN :
          /\ tasks[t] = "running"
          /\ LET first == [tasks EXCEPT ![t] = "cleared"]
                 after == IF failed THEN ClearAll(program.doneCleans, handles, first, TRUE)
                          ELSE [handles |-> handles, tasks |-> tasks]
             IN  handles' = after.handles /\ tasks' = after.tasks
    /\ UNCHANGED <<program, mpc, mi, error, startOrder, startFailed>>

InitExamples ==
    /\ program \in SyncExamples \cup EventExamples
    /\ mpc = "create" /\ mi = 1 /\ error = 0
    /\ handles = [t \in Range(program.create) |-> 0]
    /\ tasks = [t \in Range(program.create) |-> "none"]
    /\ startOrder = <<>> /\ startFailed = {} /\ events = 0
    /\ DecoderIdle
    /\ ParserIdle
    /\ WriterIdle

NextExamples ==
    \/ ExampleCreate /\ UNCHANGED <<dvars, pvars, wvars>>
    \/ ExampleConfigure /\ UNCHANGED <<dvars, pvars, wvars>>
    \/ ExampleStart /\ UNCHANGED <<dvars, pvars, wvars>>
    \/ ExampleWait /\ UNCHANGED <<dvars, pvars, wvars>>
    \/ ExampleStop /\ UNCHANGED <<dvars, pvars, wvars>>
    \/ ExampleError /\ UNCHANGED <<dvars, pvars, wvars>>
    \/ ExampleCleanup /\ UNCHANGED <<dvars, pvars, wvars>>
    \/ ExampleEveryNCallback /\ UNCHANGED <<dvars, pvars, wvars>>
    \/ ExampleDoneCallback /\ UNCHANGED <<dvars, pvars, wvars>>

SpecExamples == InitExamples /\ [][NextExamples]_vars

\* t was started, and before u if u was started too
StartedBefore(t, u) ==
    \E i \in 1..Len(startOrder) :
        /\ startOrder[i] = t
        /\ \A j \in 1..i : startOrder[j] # u

\* C13: in the three synchronization examples a task that takes its clock or
\* start trigger from another task is started before that task, the task that
\* sources the signal is not started once the start of a task that waits on it
\* has failed, and the master analog-input task of the DSA example is started
\* as the last of its four tasks.
C13_DependentsStartedFirst ==
    program \in SyncExamples =>
        /\ \A w \in program.waits :
              /\ w[2] \in Range(startOrder) => StartedBefore(w[1], w[2])
              /\ w[1] \in startFailed => w[2] \notin Range(startOrder)
        /\ (program = DSASharedTimebaseAndTrig /\ "gMasterAItaskHandle" \in Range(startOrder))
              => (Len(startOrder) = 4 /\ startOrder[4] = "gMasterAItaskHandle")

\* the four tasks of the DSA example run, the master analog-input task started last
C13_Witness ==
    /\ program = DSASharedTimebaseAndTrig
    /\ Len(startOrder) = 4 /\ startOrder[4] = "gMasterAItaskHandle"
    /\ \A t \in Range(program.create) : tasks[t] = "running"

\* C14: when main of an Events example has returned, every task it created
\* is cleared.
C14_CreatedTasksCleared ==
    (program \in EventExamples /\ mpc = "exit") =>
        \A t \in Range(program.create) : tasks[t] # "none" => tasks[t] = "cleared"

====
